---- MODULE Spec2Model ----
(***************************************************************************)
(* State-machine model of docling's DocumentConverter                      *)
(* (src/docling/document_converter.py): format -> FormatOption resolution, *)
(* the pipeline cache behind _PIPELINE_CACHE_LOCK, and the batch           *)
(* conversion generator convert_all / _convert.                            *)
(*                                                                         *)
(* Python's None is modelled per type: a pipeline instance is a positive   *)
(* number and None is 0; an options object carries a flag `none`.          *)
(***************************************************************************)
EXTENDS Integers, Sequences, FiniteSets, TLC

VARIABLES
    conv,                   \* "new" | "ready" | "init_error": DocumentConverter.__init__
    allowed_formats,        \* self.allowed_formats
    format_options,         \* the format_options argument of __init__ (a dict)
    format_to_options,      \* self.format_to_options
    initialized_pipelines,  \* self.initialized_pipelines: cache key -> instance
    peer_pipelines,         \* initialized_pipelines of a second DocumentConverter
    lock,                   \* _PIPELINE_CACHE_LOCK: 0 when free, else the holder
    task,                   \* per thread / per document: position in the code
    next_inst,              \* identity of the next pipeline instance constructed
    ctor_calls,             \* per cache key: constructor invocations so far
    ctor_fails,             \* per cache key: constructor invocations that raised
    returned,               \* history: successful returns of _get_pipeline
    raises_on_error,        \* argument of convert / convert_all
    doc_batch_size,         \* settings.perf.doc_batch_size
    doc_batch_concurrency,  \* settings.perf.doc_batch_concurrency
    api,                    \* "convert" | "convert_all" | "none"
    source,                 \* the input stream handed to convert_all
    src_pos,                \* sources consumed from the stream so far
    docs,                   \* InputDocuments produced by conv_input.docs() so far
    batch,                  \* <<lo, hi>>: document indices of the current batch
    cursor,                 \* index of the next document whose result is yielded
    gen,                    \* position of the convert_all/_convert generators
    had_result,             \* convert_all's local had_result
    yielded,                \* results yielded to the consumer, in yield order
    finished,               \* history: documents in the order _process_document ended
    error,                  \* exception that left convert_all / convert ("" = none)
    enabled,                \* TesseractOcrModel.enabled
    is_auto,                \* TesseractOcrModel._is_auto
    page_batch,             \* the pages handed to TesseractOcrModel.__call__
    ocr_pc,                 \* position of the __call__ generator
    page_i,                 \* pages of page_batch the generator is done with
    rect_i,                 \* rectangles of the current page it is done with
    all_ocr_cells,          \* all_ocr_cells of the current page
    page_cells,             \* per page: the cells given to post_process_cells
    out_pages,              \* the pages yielded by __call__, in yield order
    script_readers,         \* self.script_readers: script -> recognizer instance
    ocr_calls,              \* history: calls to the renderer, the OSD detector, the recognizers
    ocr_log,                \* history: messages logged by __call__
    detected,               \* history: what the OSD detector returned, per region
    ocr_error,              \* exception that left __call__ ("" = none)
    pages,                  \* conv_res.pages with conv_res.confidence.pages
    asm_pc,                 \* position of _assemble_document
    asm_i,                  \* pages the loop of lines 189-196 is done with
    assembled,              \* all_body, all_headers, all_elements
    confidence,             \* conv_res.confidence: the document-level scores
    aggregated,             \* history: the block of lines 254-281 was entered
    asm_error               \* exception that left _assemble_document ("" = none)

ocrVars == <<enabled, is_auto, page_batch, ocr_pc, page_i, rect_i, all_ocr_cells,
             page_cells, out_pages, script_readers, ocr_calls, ocr_log, detected,
             ocr_error>>

\* The state of the pipeline's stages, which the converter's own code never touches.
asmVars == <<pages, asm_pc, asm_i, assembled, confidence, aggregated, asm_error>>

stageVars == <<ocrVars, asmVars>>

vars == <<conv, allowed_formats, format_options, format_to_options, peer_pipelines,
          initialized_pipelines, lock, task, next_inst, ctor_calls, ctor_fails,
          returned, raises_on_error, doc_batch_size, doc_batch_concurrency, api,
          source, src_pos, docs, batch, cursor, gen, had_result, yielded, finished,
          error, stageVars>>

cacheVars == <<initialized_pipelines, lock, next_inst, ctor_calls, ctor_fails, returned>>
convVars == <<conv, allowed_formats, format_options, format_to_options, peer_pipelines>>
settingVars == <<raises_on_error, doc_batch_size, doc_batch_concurrency, api, source>>
genVars == <<src_pos, docs, batch, cursor, gen, had_result, yielded, finished, error>>

(***************************************************************************)
(* Bounds of the model.                                                    *)
(***************************************************************************)
NCallers == 2       \* threads calling initialize_pipeline concurrently
MaxCalls == 3       \* initialize_pipeline calls in one run, over all threads
MaxCustom == 1      \* entries of the format_options argument
MaxSources == 3     \* length of the input stream
MaxBatch == 2       \* settings.perf.doc_batch_size ranges over 1..MaxBatch
MaxWorkers == 2     \* settings.perf.doc_batch_concurrency ranges over 1..MaxWorkers
MaxCtorFails == 1   \* constructor failures in one run

(***************************************************************************)
(* Formats, pipeline classes, options.                                     *)
(***************************************************************************)
\* InputFormat members with an entry in _get_default_option's table.
RegisteredFormats ==
    {"CSV", "XLSX", "DOCX", "PPTX", "MD", "ASCIIDOC", "HTML", "XML_USPTO",
     "XML_JATS", "IMAGE", "PDF", "JSON_DOCLING", "AUDIO"}

\* A format value the table has no entry for.
UnregisteredFormat == "UNREGISTERED"

\* The formats the model's converters and documents range over.
ModelFormats == {"PDF", "IMAGE", "DOCX", UnregisteredFormat}

PipelineClasses == {"SimplePipeline", "StandardPdfPipeline", "AsrPipeline"}

\* pipeline_options = None
NoneOptions == [none |-> TRUE, oid |-> 0, fields |-> <<>>]

\* An options object: its identity and its serialised field values. The modelled
\* fields of PdfPipelineOptions are <<do_ocr, do_table_structure>>; the base
\* PipelineOptions has none of them.
Options(oid, fields) == [none |-> FALSE, oid |-> oid, fields |-> fields]

\* pipeline_cls.get_default_options(); every call builds a new object (oid).
get_default_options(cls, oid) ==
    IF cls = "StandardPdfPipeline" THEN Options(oid, <<1, 1>>)
    ELSE Options(oid, <<>>)

\* FormatOption(...) with its validator set_optional_field_default.
FormatOption(cls, opts, backend, oid) ==
    [pipeline_cls |-> cls,
     pipeline_options |-> IF opts.none THEN get_default_options(cls, oid) ELSE opts,
     backend |-> backend]

FormatOid(format) ==
    CASE format = "PDF" -> 1 [] format = "IMAGE" -> 2 [] format = "DOCX" -> 3
      [] format = "CSV" -> 4 [] format = "XLSX" -> 5 [] format = "PPTX" -> 6
      [] format = "MD" -> 7 [] format = "ASCIIDOC" -> 8 [] format = "HTML" -> 9
      [] format = "XML_USPTO" -> 10 [] format = "XML_JATS" -> 11
      [] format = "JSON_DOCLING" -> 12 [] format = "AUDIO" -> 13 [] OTHER -> 14

\* The table format_to_default_options of _get_default_option.
format_to_default_options ==
    [f \in RegisteredFormats |->
        CASE f = "CSV" -> FormatOption("SimplePipeline", NoneOptions, "CsvDocumentBackend", FormatOid(f))
          [] f = "XLSX" -> FormatOption("SimplePipeline", NoneOptions, "MsExcelDocumentBackend", FormatOid(f))
          [] f = "DOCX" -> FormatOption("SimplePipeline", NoneOptions, "MsWordDocumentBackend", FormatOid(f))
          [] f = "PPTX" -> FormatOption("SimplePipeline", NoneOptions, "MsPowerpointDocumentBackend", FormatOid(f))
          [] f = "MD" -> FormatOption("SimplePipeline", NoneOptions, "MarkdownDocumentBackend", FormatOid(f))
          [] f = "ASCIIDOC" -> FormatOption("SimplePipeline", NoneOptions, "AsciiDocBackend", FormatOid(f))
          [] f = "HTML" -> FormatOption("SimplePipeline", NoneOptions, "HTMLDocumentBackend", FormatOid(f))
          [] f = "XML_USPTO" -> FormatOption("SimplePipeline", NoneOptions, "PatentUsptoDocumentBackend", FormatOid(f))
          [] f = "XML_JATS" -> FormatOption("SimplePipeline", NoneOptions, "JatsDocumentBackend", FormatOid(f))
          [] f = "IMAGE" -> FormatOption("StandardPdfPipeline", NoneOptions, "DoclingParseV4DocumentBackend", FormatOid(f))
          [] f = "PDF" -> FormatOption("StandardPdfPipeline", NoneOptions, "DoclingParseV4DocumentBackend", FormatOid(f))
          [] f = "JSON_DOCLING" -> FormatOption("SimplePipeline", NoneOptions, "DoclingJSONBackend", FormatOid(f))
          [] OTHER -> FormatOption("AsrPipeline", NoneOptions, "NoOpBackend", FormatOid(f))]

\* (Faulty variant, for C8: an unknown format silently gets PDF's option.)
GetDefaultOptionWrongFormat(format) ==
    IF format \in RegisteredFormats
    THEN <<TRUE, format_to_default_options[format]>>
    ELSE <<TRUE, format_to_default_options["PDF"]>>

\* _get_default_option(format): <<TRUE, option>>, or <<FALSE, _>> for the
\* RuntimeError "No default options configured".
_get_default_option(format) ==
    IF format \in RegisteredFormats
    THEN <<TRUE, format_to_default_options[format]>>
    ELSE <<FALSE, FormatOption("SimplePipeline", NoneOptions, "", 0)>>

(***************************************************************************)
(* DocumentConverter.__init__                                              *)
(***************************************************************************)
\* FormatOption objects a caller may pass in format_options. The last one has had
\* pipeline_options set back to None after validation (the case line 320 tests).
CustomOptions ==
    {FormatOption("StandardPdfPipeline", Options(101, <<0, 1>>), "DoclingParseV4DocumentBackend", 101),
     FormatOption("StandardPdfPipeline", Options(102, <<1, 1>>), "PyPdfiumDocumentBackend", 102),
     FormatOption("SimplePipeline", NoneOptions, "MsWordDocumentBackend", 103),
     [pipeline_cls |-> "StandardPdfPipeline", pipeline_options |-> NoneOptions,
      backend |-> "DoclingParseV4DocumentBackend"]}

\* The format_options arguments of the model: dicts with at most MaxCustom keys.
CustomChoices ==
    UNION {[S -> CustomOptions] : S \in {X \in SUBSET ModelFormats : Cardinality(X) <= MaxCustom}}

\* dict.get(key): <<found, value>>
DictGet(d, k) == IF k \in DOMAIN d THEN <<TRUE, d[k]>> ELSE <<FALSE, CHOOSE v \in CustomOptions : TRUE>>

\* Does the dict comprehension of __init__ raise (a format without a custom and
\* without a default option)?
InitRaises(allowed, custom) ==
    \E f \in allowed : ~DictGet(custom, f)[1] /\ ~_get_default_option(f)[1]

\* self.format_to_options as __init__ builds it.
Resolve(allowed, custom) ==
    [f \in allowed |->
        IF DictGet(custom, f)[1] THEN DictGet(custom, f)[2] ELSE _get_default_option(f)[2]]

EmptyDict == [k \in {} |-> 0]

\* DocumentConverter(allowed_formats, format_options)
DocumentConverterInit ==
    /\ conv = "new"
    /\ IF InitRaises(allowed_formats, format_options)
       THEN /\ conv' = "init_error"
            /\ error' = "RuntimeError"
            /\ format_to_options' = format_to_options
       ELSE /\ conv' = "ready"
            /\ error' = ""
            /\ format_to_options' = Resolve(allowed_formats, format_options)
    /\ initialized_pipelines' = EmptyDict
    /\ UNCHANGED <<allowed_formats, format_options, lock, task, next_inst, ctor_calls,
                   ctor_fails, returned, peer_pipelines>>
    /\ UNCHANGED settingVars
    /\ UNCHANGED <<src_pos, docs, batch, cursor, gen, had_result, yielded, finished>>
    /\ UNCHANGED stageVars

(***************************************************************************)
(* The pipeline cache: _get_pipeline_options_hash and _get_pipeline        *)
(***************************************************************************)
\* (Faulty variant, for C7: the first field is left out of the dump.)
OptionsStrSkipsFirstField(pipeline_options) ==
    IF pipeline_options.fields = <<>> THEN <<>> ELSE Tail(pipeline_options.fields)

\* pipeline_options.model_dump(), as the string str() makes of it: the field
\* values in declaration order. The object's identity is no part of it.
options_str(pipeline_options) == pipeline_options.fields

\* hashlib.md5(...).hexdigest(): a digest of the whole string. The fold is
\* injective on the strings of the model (md5's collisions are not modelled).
HashBase == 3

RECURSIVE md5_hexdigest(_, _)
md5_hexdigest(s, h) ==
    IF s = <<>> THEN h ELSE md5_hexdigest(Tail(s), h * HashBase + Head(s) + 1)

_get_pipeline_options_hash(pipeline_options) ==
    md5_hexdigest(options_str(pipeline_options), 0)

\* cache_key = (pipeline_class, options_hash)
NoKey == <<"", 0>>
cache_key(fopt) == <<fopt.pipeline_cls, _get_pipeline_options_hash(fopt.pipeline_options)>>

\* Every cache key the model's converters can compute.
AllOptions == {o.pipeline_options : o \in CustomOptions \cup {format_to_default_options[f] : f \in RegisteredFormats}}
AllKeys == {<<c, _get_pipeline_options_hash(o)>> : c \in PipelineClasses, o \in AllOptions \ {NoneOptions}}

\* A thread outside any call.
IdleTask == [pc |-> "idle", caller |-> "", fmt |-> "", key |-> NoKey, first |-> FALSE,
             pipeline |-> 0, res |-> "", exc |-> "", errors |-> <<>>, calls |-> 0]

\* Lines 318-328 of _get_pipeline: the FormatOption lookup and the cache key. The
\* thread either has its answer None at once or goes on to the lock.
HasPipelineOptions(doc_format) ==
    /\ doc_format \in DOMAIN format_to_options
    /\ ~format_to_options[doc_format].pipeline_options.none

\* (Faulty variant, for C13: initialize_pipeline does not test for None.)
AfterGetPipelineNoRaise(tk, pipeline) ==
    IF tk.caller = "initialize_pipeline"
    THEN [tk EXCEPT !.pc = "idle", !.pipeline = pipeline, !.exc = ""]
    ELSE IF pipeline # 0 THEN [tk EXCEPT !.pc = "executing", !.pipeline = pipeline]
         ELSE IF raises_on_error
              THEN [tk EXCEPT !.pc = "raised", !.exc = "ConversionError: no pipeline"]
              ELSE [tk EXCEPT !.pc = "done", !.res = "FAILURE"]

\* What the caller of _get_pipeline does with the pipeline it got.
AfterGetPipeline(tk, pipeline) ==
    IF tk.caller = "initialize_pipeline"
    THEN \* lines 214-218
         [tk EXCEPT !.pc = "idle", !.pipeline = pipeline,
                    !.exc = IF pipeline = 0 THEN "ConversionError: no pipeline" ELSE ""]
    ELSE \* _execute_pipeline, lines 373-385
         IF pipeline # 0 THEN [tk EXCEPT !.pc = "executing", !.pipeline = pipeline]
         ELSE IF raises_on_error
              THEN [tk EXCEPT !.pc = "raised", !.exc = "ConversionError: no pipeline"]
              ELSE [tk EXCEPT !.pc = "done", !.res = "FAILURE"]

\* What happens to the caller when the constructor's exception reaches it: neither
\* initialize_pipeline nor _execute_pipeline / _process_document catches it.
AfterCtorRaise(tk) ==
    IF tk.caller = "initialize_pipeline"
    THEN [tk EXCEPT !.pc = "idle", !.exc = "RuntimeError"]
    ELSE [tk EXCEPT !.pc = "raised", !.exc = "RuntimeError"]

_get_pipeline_enter(tk, doc_format) ==
    IF ~HasPipelineOptions(doc_format)
    THEN AfterGetPipeline([tk EXCEPT !.fmt = doc_format, !.key = NoKey], 0)
    ELSE [tk EXCEPT !.pc = "wait_lock", !.fmt = doc_format,
                    !.key = cache_key(format_to_options[doc_format]),
                    !.first = cache_key(format_to_options[doc_format])
                                  \notin DOMAIN initialized_pipelines]

TotalCalls == LET RECURSIVE Sum(_)
                  Sum(S) == IF S = {} THEN 0
                            ELSE LET t == CHOOSE x \in S : TRUE
                                 IN task[t].calls + Sum(S \ {t})
              IN Sum(DOMAIN task)

\* initialize_pipeline(format), up to the lock of _get_pipeline.
InitializePipeline(t, format) ==
    /\ conv = "ready"
    /\ api = "none"
    /\ task[t].pc = "idle"
    /\ TotalCalls < MaxCalls
    /\ task' = [task EXCEPT ![t] =
                  _get_pipeline_enter([IdleTask EXCEPT !.caller = "initialize_pipeline",
                                                       !.calls = task[t].calls + 1], format)]
    /\ UNCHANGED cacheVars
    /\ UNCHANGED convVars
    /\ UNCHANGED stageVars
    /\ UNCHANGED settingVars
    /\ UNCHANGED genVars

\* (Faulty variant, for C1: entry without mutual exclusion.)
LockAcquireNoMutex(t) ==
    /\ task[t].pc = "wait_lock"
    /\ lock' = t
    /\ task' = [task EXCEPT ![t].pc = "in_lock"]
    /\ UNCHANGED <<initialized_pipelines, next_inst, ctor_calls, ctor_fails, returned>>
    /\ UNCHANGED convVars
    /\ UNCHANGED stageVars
    /\ UNCHANGED settingVars
    /\ UNCHANGED genVars

\* (Faulty variant, for C29: a lock per converter; thread 1 calls one converter,
\* the other threads another.)
LockAcquirePerConverter(t) ==
    /\ task[t].pc = "wait_lock"
    /\ lock = 0 \/ ((lock = 1) # (t = 1))
    /\ lock' = t
    /\ task' = [task EXCEPT ![t].pc = "in_lock"]
    /\ UNCHANGED <<initialized_pipelines, next_inst, ctor_calls, ctor_fails, returned>>
    /\ UNCHANGED convVars
    /\ UNCHANGED stageVars
    /\ UNCHANGED settingVars
    /\ UNCHANGED genVars

\* with _PIPELINE_CACHE_LOCK: (entry)
LockAcquire(t) ==
    /\ task[t].pc = "wait_lock"
    /\ lock = 0
    /\ lock' = t
    /\ task' = [task EXCEPT ![t].pc = "in_lock"]
    /\ UNCHANGED <<initialized_pipelines, next_inst, ctor_calls, ctor_fails, returned>>
    /\ UNCHANGED convVars
    /\ UNCHANGED stageVars
    /\ UNCHANGED settingVars
    /\ UNCHANGED genVars

Returned(t, tk, pipeline) ==
    [thread |-> t, fmt |-> tk.fmt, first |-> tk.first, inst |-> pipeline]

\* cache_key in self.initialized_pipelines: return the cached instance and leave
\* the with block.
CacheHit(t) ==
    /\ task[t].pc = "in_lock"
    /\ task[t].key \in DOMAIN initialized_pipelines
    /\ task' = [task EXCEPT ![t] = AfterGetPipeline(task[t], initialized_pipelines[task[t].key])]
    /\ returned' = returned \cup {Returned(t, task[t], initialized_pipelines[task[t].key])}
    /\ lock' = 0
    /\ UNCHANGED <<initialized_pipelines, next_inst, ctor_calls, ctor_fails>>
    /\ UNCHANGED convVars
    /\ UNCHANGED stageVars
    /\ UNCHANGED settingVars
    /\ UNCHANGED genVars

\* cache_key not in self.initialized_pipelines: the constructor is called, with
\* the lock held.
CacheMiss(t) ==
    /\ task[t].pc = "in_lock"
    /\ task[t].key \notin DOMAIN initialized_pipelines
    /\ task' = [task EXCEPT ![t].pc = "constructing"]
    /\ ctor_calls' = [ctor_calls EXCEPT ![task[t].key] = @ + 1]
    /\ UNCHANGED <<initialized_pipelines, lock, next_inst, ctor_fails, returned>>
    /\ UNCHANGED convVars
    /\ UNCHANGED stageVars
    /\ UNCHANGED settingVars
    /\ UNCHANGED genVars

\* (Faulty variant, for C24: the insertion evicts every other entry.)
DictPutEvicts(d, k, v) == [x \in {k} |-> v]

DictPut(d, k, v) == [x \in DOMAIN d \cup {k} |-> IF x = k THEN v ELSE d[x]]

\* (Faulty variant, for C12: the caller goes on with the lock still held.)
CtorReturnKeepsLock(t) ==
    /\ task[t].pc = "constructing"
    /\ initialized_pipelines' = DictPut(initialized_pipelines, task[t].key, next_inst)
    /\ next_inst' = next_inst + 1
    /\ task' = [task EXCEPT ![t] = AfterGetPipeline(task[t], next_inst)]
    /\ returned' = returned \cup {Returned(t, task[t], next_inst)}
    /\ UNCHANGED <<lock, ctor_calls, ctor_fails>>
    /\ UNCHANGED convVars
    /\ UNCHANGED stageVars
    /\ UNCHANGED settingVars
    /\ UNCHANGED genVars

\* The constructor returns: the instance is stored under the key, read back,
\* returned, and the lock is released.
CtorReturn(t) ==
    /\ task[t].pc = "constructing"
    /\ initialized_pipelines' = DictPut(initialized_pipelines, task[t].key, next_inst)
    /\ next_inst' = next_inst + 1
    /\ task' = [task EXCEPT ![t] = AfterGetPipeline(task[t], next_inst)]
    /\ returned' = returned \cup {Returned(t, task[t], next_inst)}
    /\ lock' = 0
    /\ UNCHANGED <<ctor_calls, ctor_fails>>
    /\ UNCHANGED convVars
    /\ UNCHANGED stageVars
    /\ UNCHANGED settingVars
    /\ UNCHANGED genVars

TotalCtorFails == LET RECURSIVE Sum(_)
                      Sum(S) == IF S = {} THEN 0
                                ELSE LET k == CHOOSE x \in S : TRUE
                                     IN ctor_fails[k] + Sum(S \ {k})
                  IN Sum(AllKeys)

\* (Faulty variant, for C10: the lock is not released on the exception.)
CtorRaiseKeepsLock(t) ==
    /\ task[t].pc = "constructing"
    /\ TotalCtorFails < MaxCtorFails
    /\ ctor_fails' = [ctor_fails EXCEPT ![task[t].key] = @ + 1]
    /\ task' = [task EXCEPT ![t] = AfterCtorRaise(task[t])]
    /\ finished' = IF task[t].caller = "_execute_pipeline" THEN Append(finished, t) ELSE finished
    /\ UNCHANGED <<initialized_pipelines, lock, next_inst, ctor_calls, returned>>
    /\ UNCHANGED convVars
    /\ UNCHANGED stageVars
    /\ UNCHANGED settingVars
    /\ UNCHANGED <<src_pos, docs, batch, cursor, gen, had_result, yielded, error>>

\* The constructor raises (StandardPdfPipeline.__init__ does for an artifacts_path
\* that is no directory or an unsupported picture description kind; a model it
\* builds may). The assignment of line 335 does not happen, the with block
\* releases the lock and the exception goes to the caller.
CtorRaise(t) ==
    /\ task[t].pc = "constructing"
    /\ TotalCtorFails < MaxCtorFails
    /\ ctor_fails' = [ctor_fails EXCEPT ![task[t].key] = @ + 1]
    /\ task' = [task EXCEPT ![t] = AfterCtorRaise(task[t])]
    /\ lock' = 0
    /\ finished' = IF task[t].caller = "_execute_pipeline" THEN Append(finished, t) ELSE finished
    /\ UNCHANGED <<initialized_pipelines, next_inst, ctor_calls, returned>>
    /\ UNCHANGED convVars
    /\ UNCHANGED stageVars
    /\ UNCHANGED settingVars
    /\ UNCHANGED <<src_pos, docs, batch, cursor, gen, had_result, yielded, error>>

(***************************************************************************)
(* A second DocumentConverter of the same process, constructed with the    *)
(* same arguments as the first: it has the same format_to_options and a    *)
(* cache of its own, peer_pipelines, and its _get_pipeline enters the same *)
(* module-level _PIPELINE_CACHE_LOCK. Thread 1 calls the first converter,  *)
(* every other thread the second one.                                      *)
(***************************************************************************)
PeerThreads == (DOMAIN task) \ {1}

\* initialize_pipeline(format) of the second converter, up to the lock.
PeerInitializePipeline(t, format) ==
    /\ conv = "ready"
    /\ api = "none"
    /\ task[t].pc = "idle"
    /\ TotalCalls < MaxCalls
    /\ LET tk == _get_pipeline_enter([IdleTask EXCEPT !.caller = "initialize_pipeline",
                                                      !.calls = task[t].calls + 1], format)
       IN task' = [task EXCEPT ![t] = [tk EXCEPT !.first = tk.key \notin DOMAIN peer_pipelines]]
    /\ UNCHANGED cacheVars
    /\ UNCHANGED convVars
    /\ UNCHANGED stageVars
    /\ UNCHANGED settingVars
    /\ UNCHANGED genVars

\* cache_key in self.initialized_pipelines, for the second converter.
PeerCacheHit(t) ==
    /\ task[t].pc = "in_lock"
    /\ task[t].key \in DOMAIN peer_pipelines
    /\ task' = [task EXCEPT ![t] = AfterGetPipeline(task[t], peer_pipelines[task[t].key])]
    /\ returned' = returned \cup {Returned(t, task[t], peer_pipelines[task[t].key])}
    /\ lock' = 0
    /\ UNCHANGED <<initialized_pipelines, next_inst, ctor_calls, ctor_fails>>
    /\ UNCHANGED convVars
    /\ UNCHANGED stageVars
    /\ UNCHANGED settingVars
    /\ UNCHANGED genVars

\* cache_key not in self.initialized_pipelines, for the second converter.
PeerCacheMiss(t) ==
    /\ task[t].pc = "in_lock"
    /\ task[t].key \notin DOMAIN peer_pipelines
    /\ task' = [task EXCEPT ![t].pc = "constructing"]
    /\ ctor_calls' = [ctor_calls EXCEPT ![task[t].key] = @ + 1]
    /\ UNCHANGED <<initialized_pipelines, lock, next_inst, ctor_fails, returned>>
    /\ UNCHANGED convVars
    /\ UNCHANGED stageVars
    /\ UNCHANGED settingVars
    /\ UNCHANGED genVars

\* The constructor returns to the second converter's _get_pipeline.
PeerCtorReturn(t) ==
    /\ task[t].pc = "constructing"
    /\ peer_pipelines' = DictPut(peer_pipelines, task[t].key, next_inst)
    /\ next_inst' = next_inst + 1
    /\ task' = [task EXCEPT ![t] = AfterGetPipeline(task[t], next_inst)]
    /\ returned' = returned \cup {Returned(t, task[t], next_inst)}
    /\ lock' = 0
    /\ UNCHANGED <<initialized_pipelines, ctor_calls, ctor_fails>>
    /\ UNCHANGED <<conv, allowed_formats, format_options, format_to_options>>
    /\ UNCHANGED stageVars
    /\ UNCHANGED settingVars
    /\ UNCHANGED genVars

(***************************************************************************)
(* SpecInit: DocumentConverter.__init__ on every allowed_formats and       *)
(* format_options argument of the model.                                   *)
(***************************************************************************)
ZeroCounts == [k \in AllKeys |-> 0]

\* The state of everything outside the converter's own attributes before any
\* call is made.
Quiet ==
    /\ initialized_pipelines = EmptyDict
    /\ peer_pipelines = EmptyDict
    /\ lock = 0
    /\ next_inst = 1
    /\ ctor_calls = ZeroCounts
    /\ ctor_fails = ZeroCounts
    /\ returned = {}
    /\ src_pos = 0
    /\ docs = <<>>
    /\ batch = <<1, 0>>
    /\ cursor = 1
    /\ had_result = FALSE
    /\ yielded = <<>>
    /\ finished = <<>>
    /\ error = ""

NoConversion ==
    /\ raises_on_error = FALSE
    /\ doc_batch_size = 1
    /\ doc_batch_concurrency = 1
    /\ api = "none"
    /\ source = <<>>
    /\ gen = "none"

\* No OCR stage is running: the state of an engine that is not enabled and has
\* been handed no page.
NoOcr ==
    /\ enabled = FALSE
    /\ is_auto = FALSE
    /\ page_batch = <<>>
    /\ ocr_pc = "none"
    /\ page_i = 0
    /\ rect_i = 0
    /\ all_ocr_cells = <<>>
    /\ page_cells = <<>>
    /\ out_pages = <<>>
    /\ script_readers = EmptyDict
    /\ ocr_calls = {}
    /\ ocr_log = {}
    /\ detected = {}
    /\ ocr_error = ""

\* A score that is absent: NaN. A score that is present is a fraction num / den.
NaN == [nan |-> TRUE, num |-> 0, den |-> 1]

\* ConfidenceReport(): every document-level score is NaN.
DefaultScores == [layout_score |-> NaN, parse_score |-> NaN, table_score |-> NaN, ocr_score |-> NaN]

EmptyUnit == [body |-> <<>>, headers |-> <<>>, elements |-> <<>>]

\* _assemble_document is not running.
NoAssemble ==
    /\ pages = <<>>
    /\ asm_pc = "none"
    /\ asm_i = 0
    /\ assembled = EmptyUnit
    /\ confidence = DefaultScores
    /\ aggregated = FALSE
    /\ asm_error = ""

\* No stage of a pipeline is running.
NoStage == NoOcr /\ NoAssemble

InitInit ==
    /\ conv = "new"
    /\ allowed_formats \in SUBSET ModelFormats
    /\ format_options \in CustomChoices
    /\ format_to_options = EmptyDict
    /\ task = [t \in 1..NCallers |-> IdleTask]
    /\ Quiet
    /\ NoStage
    /\ NoConversion

NextInit == DocumentConverterInit

SpecInit == InitInit /\ [][NextInit]_vars

(***************************************************************************)
(* SpecCache: one converter and NCallers threads calling                   *)
(* initialize_pipeline. The converter allows PDF, IMAGE and DOCX, with the *)
(* default options or with one custom FormatOption for PDF.                *)
(***************************************************************************)
CacheFormats == {"PDF", "IMAGE", "DOCX"}
CacheCustoms == {EmptyDict} \cup [{"PDF"} -> CustomOptions]

InitCache ==
    /\ conv = "ready"
    /\ allowed_formats = CacheFormats
    /\ format_options \in CacheCustoms
    /\ format_to_options = Resolve(allowed_formats, format_options)
    /\ task = [t \in 1..NCallers |-> IdleTask]
    /\ Quiet
    /\ NoStage
    /\ NoConversion

NextCache ==
    \/ \E t \in DOMAIN task, f \in ModelFormats : InitializePipeline(t, f)
    \/ \E t \in DOMAIN task : LockAcquire(t)
    \/ \E t \in DOMAIN task : CacheHit(t)
    \/ \E t \in DOMAIN task : CacheMiss(t)
    \/ \E t \in DOMAIN task : CtorReturn(t)
    \/ \E t \in DOMAIN task : CtorRaise(t)

SpecCache == InitCache /\ [][NextCache]_vars

(***************************************************************************)
(* Claims on the pipeline cache and on format resolution.                  *)
(***************************************************************************)
KeyOf(r) == cache_key(format_to_options[r.fmt])

\* C1: for every cache key, at most one constructor invocation does not end in
\* an exception, however many threads race on the first use of the key; once a
\* caller has returned for the key exactly one such invocation was made, and
\* every caller that returns for the key gets the one instance stored under it.
C1_AtMostOneConstruction ==
    /\ \A k \in AllKeys : ctor_calls[k] - ctor_fails[k] <= 1
    /\ \A r \in returned :
          /\ ctor_calls[KeyOf(r)] - ctor_fails[KeyOf(r)] = 1
          /\ KeyOf(r) \in DOMAIN initialized_pipelines
          /\ initialized_pipelines[KeyOf(r)] = r.inst
    /\ \A r1, r2 \in returned : KeyOf(r1) = KeyOf(r2) => r1.inst = r2.inst

\* Two threads that both entered _get_pipeline before the key was cached have
\* both returned, after a single constructor call.
C1_Witness ==
    \E r1, r2 \in returned :
        /\ r1.thread # r2.thread
        /\ r1.first /\ r2.first
        /\ KeyOf(r1) = KeyOf(r2)
        /\ ctor_calls[KeyOf(r1)] = 1

\* C7: two _get_pipeline calls return the same instance if and only if their
\* FormatOptions have the same pipeline class and options with equal field
\* values; the options hash of two FormatOptions is equal whenever their
\* options' field values are, whatever the objects' identities.
SameByValue(f, g) ==
    /\ format_to_options[f].pipeline_cls = format_to_options[g].pipeline_cls
    /\ format_to_options[f].pipeline_options.fields = format_to_options[g].pipeline_options.fields

C7_CacheIdentity ==
    /\ \A r1, r2 \in returned : (r1.inst = r2.inst) <=> SameByValue(r1.fmt, r2.fmt)
    /\ \A f, g \in DOMAIN format_to_options :
          format_to_options[f].pipeline_options.fields = format_to_options[g].pipeline_options.fields
          => _get_pipeline_options_hash(format_to_options[f].pipeline_options)
               = _get_pipeline_options_hash(format_to_options[g].pipeline_options)

\* Two formats whose options are distinct objects with equal values got the same
\* instance, and a third format with other options got another one.
C7_Witness ==
    \E r1, r2, r3 \in returned :
        /\ r1.fmt # r2.fmt
        /\ format_to_options[r1.fmt].pipeline_options.oid
             # format_to_options[r2.fmt].pipeline_options.oid
        /\ r1.inst = r2.inst
        /\ r3.inst # r1.inst

\* C8: after __init__, every allowed format is bound to the caller's FormatOption
\* when format_options has one for it and otherwise to the table's default entry
\* of that very format; __init__ raises (RuntimeError) exactly when an allowed
\* format has neither, and then binds nothing.
C8_Resolution ==
    conv # "new" =>
        /\ (conv = "init_error") <=>
              (\E f \in allowed_formats : f \notin DOMAIN format_options /\ f \notin RegisteredFormats)
        /\ conv = "init_error" => error = "RuntimeError" /\ format_to_options = EmptyDict
        /\ conv = "ready" =>
              /\ DOMAIN format_to_options = allowed_formats
              /\ \A f \in allowed_formats :
                    IF f \in DOMAIN format_options
                    THEN format_to_options[f] = format_options[f]
                    ELSE /\ f \in RegisteredFormats
                         /\ format_to_options[f] = format_to_default_options[f]

\* __init__ has raised for an unregistered format although a custom option was
\* supplied for another format and other formats have defaults.
C8_Witness ==
    /\ conv = "init_error"
    /\ UnregisteredFormat \in allowed_formats
    /\ format_options # EmptyDict
    /\ Cardinality(allowed_formats) > 1

\* C10: a step in which the constructor raises inside _get_pipeline leaves the
\* cache as it was (no entry for the key), releases the lock, makes no further
\* constructor call, and hands the exception to the caller.
C10_CtorFailure ==
    [][\A t \in DOMAIN task :
          (task[t].pc = "constructing" /\ ctor_fails'[task[t].key] = ctor_fails[task[t].key] + 1)
          => /\ initialized_pipelines' = initialized_pipelines
             /\ task[t].key \notin DOMAIN initialized_pipelines'
             /\ lock' = 0
             /\ ctor_calls' = ctor_calls
             /\ task'[t].exc = "RuntimeError"
             /\ task'[t].pc \in {"idle", "raised"}]_vars

\* A constructor failed for a key and a later call constructed the pipeline of
\* that key: the failure left the lock free and the key absent.
C10_Witness ==
    \E k \in AllKeys :
        /\ ctor_fails[k] = 1
        /\ ctor_calls[k] = 2
        /\ k \in DOMAIN initialized_pipelines

\* C24: an entry of the cache is never removed or replaced; a key enters the
\* cache only when the constructor called by a _get_pipeline call for that key
\* returns, so a cached key has had a constructor call; and every _get_pipeline
\* call that returns for a key returns the instance stored under it, the same
\* one as every call for that key before it.
C24_CacheOnlyGrows ==
    [][/\ \A k \in DOMAIN initialized_pipelines :
             /\ k \in DOMAIN initialized_pipelines'
             /\ initialized_pipelines'[k] = initialized_pipelines[k]
       /\ \A k \in DOMAIN initialized_pipelines' :
             /\ ctor_calls'[k] >= 1
             /\ k \notin DOMAIN initialized_pipelines =>
                   \E t \in DOMAIN task : task[t].pc = "constructing" /\ task[t].key = k
       /\ \A r \in returned' :
             /\ KeyOf(r) \in DOMAIN initialized_pipelines'
             /\ initialized_pipelines'[KeyOf(r)] = r.inst
             /\ \A r0 \in returned : KeyOf(r0) = KeyOf(r) => r0.inst = r.inst]_vars

\* The cache holds two entries, and a call made when its key was cached has
\* returned the instance a first call for that key had constructed.
C24_Witness ==
    /\ Cardinality(DOMAIN initialized_pipelines) = 2
    /\ \E r1, r2 \in returned :
          /\ r1.first /\ ~r2.first
          /\ KeyOf(r1) = KeyOf(r2)
          /\ r1.inst = r2.inst
          /\ r1.inst < next_inst - 1

(***************************************************************************)
(* SpecShared: two converters with the same options, thread 1 calling      *)
(* initialize_pipeline of the first and the other threads that of the      *)
(* second.                                                                 *)
(***************************************************************************)
\* The formats the callers ask for: one of each pipeline class.
SharedFormats == {"PDF", "DOCX"}

InitShared ==
    /\ conv = "ready"
    /\ allowed_formats = CacheFormats
    /\ format_options = EmptyDict
    /\ format_to_options = Resolve(allowed_formats, format_options)
    /\ task = [t \in 1..NCallers |-> IdleTask]
    /\ Quiet
    /\ NoStage
    /\ NoConversion

NextShared ==
    \/ \E f \in SharedFormats : InitializePipeline(1, f)
    \/ \E t \in PeerThreads, f \in SharedFormats : PeerInitializePipeline(t, f)
    \/ \E t \in DOMAIN task : LockAcquire(t)
    \/ CacheHit(1)
    \/ CacheMiss(1)
    \/ CtorReturn(1)
    \/ \E t \in PeerThreads : PeerCacheHit(t)
    \/ \E t \in PeerThreads : PeerCacheMiss(t)
    \/ \E t \in PeerThreads : PeerCtorReturn(t)
    \/ \E t \in DOMAIN task : CtorRaise(t)

SpecShared == InitShared /\ [][NextShared]_vars

\* A thread that has entered _get_pipeline goes on when it can: it gets the lock
\* when the lock is free and no other thread takes it, and the constructor it
\* called ends, by returning or by raising. No caller is obliged to call.
CallStep(t) ==
    \/ LockAcquire(t)
    \/ CacheHit(1) /\ t = 1
    \/ CacheMiss(1) /\ t = 1
    \/ CtorReturn(1) /\ t = 1
    \/ t \in PeerThreads /\ (PeerCacheHit(t) \/ PeerCacheMiss(t) \/ PeerCtorReturn(t))
    \/ CtorRaise(t)

SpecSharedFair == SpecShared /\ \A t \in 1..NCallers : WF_vars(CallStep(t))

\* C29: at most one pipeline constructor runs at any time, whatever the keys
\* and the converters; the thread it runs in holds the lock, every other
\* thread that is inside _get_pipeline with a key waits for the lock, and no
\* other thread's _get_pipeline returns in a step taken while it runs; and
\* every call, waiting for the lock or past it, in the end comes back to its
\* caller.
C29_SerializedConstruction ==
    /\ [][/\ Cardinality({t \in DOMAIN task : task'[t].pc = "constructing"}) <= 1
          /\ \A t \in DOMAIN task :
                task'[t].pc = "constructing" =>
                    /\ lock' = t
                    /\ \A u \in DOMAIN task \ {t} : task'[u].pc \in {"idle", "wait_lock"}
          /\ \A t \in DOMAIN task :
                (task[t].pc = "constructing" /\ task'[t].pc = "constructing") =>
                    /\ returned' = returned
                    /\ initialized_pipelines' = initialized_pipelines
                    /\ peer_pipelines' = peer_pipelines]_vars
    /\ \A t \in 1..NCallers : []<>(task[t].pc = "idle")

\* The first converter constructs a pipeline while a thread of the second
\* converter waits for the lock, although its own key - another one - is in
\* the second converter's cache already.
C29_Witness ==
    /\ task[1].pc = "constructing"
    /\ \E u \in PeerThreads :
          /\ task[u].pc = "wait_lock"
          /\ task[u].key # task[1].key
          /\ task[u].key \in DOMAIN peer_pipelines

(***************************************************************************)
(* The batch conversion engine: convert / convert_all / _convert,          *)
(* _process_document and _execute_pipeline.                                *)
(***************************************************************************)
\* What the input stream holds: a source whose format is not recognised, a PDF
\* source its backend finds valid or not, or a DOCX source (a format the
\* converters of Spec do not allow).
SourceKinds ==
    {[recognized |-> FALSE, format |-> "", valid |-> FALSE],
     [recognized |-> TRUE, format |-> "PDF", valid |-> TRUE],
     [recognized |-> TRUE, format |-> "PDF", valid |-> FALSE],
     [recognized |-> TRUE, format |-> "DOCX", valid |-> FALSE]}

RECURSIVE SeqsUpTo(_, _)
SeqsUpTo(S, n) ==
    IF n = 0 THEN {<<>>}
    ELSE LET shorter == SeqsUpTo(S, n - 1)
         IN shorter \cup {Append(q, x) : q \in {r \in shorter : Len(r) = n - 1}, x \in S}

InputDocument(src) == [format |-> src.format, valid |-> src.valid]

\* chunkify(conv_input.docs(format_to_options), doc_batch_size), one chunk:
\* sources are pulled from position pos on until n documents are in the chunk or
\* the stream ends; docs() makes no InputDocument of an unrecognised source.
\* <<position reached, documents of the chunk>>
RECURSIVE chunkify(_, _, _)
chunkify(pos, n, acc) ==
    IF n = 0 \/ pos >= Len(source) THEN <<pos, acc>>
    ELSE IF source[pos + 1].recognized
         THEN chunkify(pos + 1, n - 1, Append(acc, InputDocument(source[pos + 1])))
         ELSE chunkify(pos + 1, n, acc)

\* (Faulty variant, for C21: the batch size is not consulted.)
ConcurrentAnyBatchSize == doc_batch_concurrency > 1

\* settings.perf.doc_batch_concurrency > 1 and settings.perf.doc_batch_size > 1
Concurrent == doc_batch_concurrency > 1 /\ doc_batch_size > 1

QueuedTask == [IdleTask EXCEPT !.pc = "queued"]

\* (Faulty variant, for C25: the whole input is materialised as one chunk.)
TakeBatchWholeInput ==
    /\ gen = "next_batch"
    /\ LET c == chunkify(src_pos, Len(source), <<>>)
           lo == Len(docs) + 1
           hi == Len(docs) + Len(c[2])
       IN /\ c[2] # <<>>
          /\ src_pos' = c[1]
          /\ docs' = docs \o c[2]
          /\ batch' = <<lo, hi>>
          /\ cursor' = lo
          /\ task' = [t \in DOMAIN task |-> IF t \in lo..hi THEN QueuedTask ELSE task[t]]
          /\ gen' = IF Concurrent THEN "pool" ELSE "seq"
    /\ UNCHANGED <<had_result, yielded, finished, error>>
    /\ UNCHANGED cacheVars
    /\ UNCHANGED convVars
    /\ UNCHANGED stageVars
    /\ UNCHANGED settingVars

\* The next chunk is taken from the input and handed to pool.map (which submits
\* every document at once) or to map (which is lazy).
TakeBatch ==
    /\ gen = "next_batch"
    /\ LET c == chunkify(src_pos, doc_batch_size, <<>>)
           lo == Len(docs) + 1
           hi == Len(docs) + Len(c[2])
       IN /\ c[2] # <<>>
          /\ src_pos' = c[1]
          /\ docs' = docs \o c[2]
          /\ batch' = <<lo, hi>>
          /\ cursor' = lo
          /\ task' = [t \in DOMAIN task |-> IF t \in lo..hi THEN QueuedTask ELSE task[t]]
          /\ gen' = IF Concurrent THEN "pool" ELSE "seq"
    /\ UNCHANGED <<had_result, yielded, finished, error>>
    /\ UNCHANGED cacheVars
    /\ UNCHANGED convVars
    /\ UNCHANGED stageVars
    /\ UNCHANGED settingVars

\* (Faulty variant, for C9: the allowed-format test is missing.)
ProcessDocumentNoFormatCheck(tk, in_doc) ==
    IF in_doc.valid
    THEN _get_pipeline_enter([tk EXCEPT !.caller = "_execute_pipeline"], in_doc.format)
    ELSE IF raises_on_error
         THEN [tk EXCEPT !.pc = "raised", !.caller = "_execute_pipeline", !.fmt = in_doc.format,
                         !.exc = "ConversionError: not valid"]
         ELSE [tk EXCEPT !.pc = "done", !.caller = "_execute_pipeline", !.fmt = in_doc.format,
                         !.res = "FAILURE"]

\* _process_document(in_doc, raises_on_error) and, for an allowed format,
\* _execute_pipeline up to the lock of _get_pipeline.
_process_document(tk, in_doc) ==
    IF in_doc.format \in allowed_formats
    THEN \* _execute_pipeline
         IF in_doc.valid
         THEN _get_pipeline_enter([tk EXCEPT !.caller = "_execute_pipeline"], in_doc.format)
         ELSE IF raises_on_error
              THEN [tk EXCEPT !.pc = "raised", !.caller = "_execute_pipeline", !.fmt = in_doc.format,
                              !.exc = "ConversionError: not valid"]
              ELSE [tk EXCEPT !.pc = "done", !.caller = "_execute_pipeline", !.fmt = in_doc.format,
                              !.res = "FAILURE"]
    ELSE IF raises_on_error
         THEN [tk EXCEPT !.pc = "raised", !.caller = "_process_document", !.fmt = in_doc.format,
                         !.exc = "ConversionError: format not allowed"]
         ELSE [tk EXCEPT !.pc = "done", !.caller = "_process_document", !.fmt = in_doc.format,
                         !.res = "SKIPPED", !.errors = <<"USER_INPUT">>]

Ended(tk) == tk.pc \in {"done", "raised"}
\* (Faulty variant, for C23: a worker whose document hangs counts as free.)
RunningIgnoresHung(tk) == tk.pc \in {"wait_lock", "in_lock", "constructing", "executing"}

\* A document a worker is busy with; "hung" is a call of pipeline.execute that
\* never returns.
Running(tk) == tk.pc \in {"wait_lock", "in_lock", "constructing", "executing", "hung"}

BatchTasks == batch[1]..batch[2]

\* (Faulty variant, for C22: a thread per document, whatever max_workers is.)
WorkerStartUnbounded(t) ==
    /\ Concurrent
    /\ t \in BatchTasks
    /\ task[t].pc = "queued"
    /\ \A u \in BatchTasks : task[u].pc = "queued" => t <= u
    /\ task' = [task EXCEPT ![t] = _process_document(task[t], docs[t])]
    /\ finished' = IF Ended(task'[t]) THEN Append(finished, t) ELSE finished
    /\ UNCHANGED <<src_pos, docs, batch, cursor, gen, had_result, yielded, error>>
    /\ UNCHANGED cacheVars
    /\ UNCHANGED convVars
    /\ UNCHANGED stageVars
    /\ UNCHANGED settingVars

\* A pool worker takes the next queued document (FIFO) when fewer than
\* max_workers documents are being processed.
WorkerStart(t) ==
    /\ Concurrent
    /\ t \in BatchTasks
    /\ task[t].pc = "queued"
    /\ \A u \in BatchTasks : task[u].pc = "queued" => t <= u
    /\ Cardinality({u \in BatchTasks : Running(task[u])}) < doc_batch_concurrency
    /\ task' = [task EXCEPT ![t] = _process_document(task[t], docs[t])]
    /\ finished' = IF Ended(task'[t]) THEN Append(finished, t) ELSE finished
    /\ UNCHANGED <<src_pos, docs, batch, cursor, gen, had_result, yielded, error>>
    /\ UNCHANGED cacheVars
    /\ UNCHANGED convVars
    /\ UNCHANGED stageVars
    /\ UNCHANGED settingVars

\* (Faulty variant, for C28: the documents of the batch are processed ahead of
\* the consumer, also after convert_all has raised.)
SeqStartAhead ==
    /\ gen \in {"seq", "raised"}
    /\ ~Concurrent
    /\ \E t \in BatchTasks :
          /\ task[t].pc = "queued"
          /\ \A u \in BatchTasks : task[u].pc = "queued" => t <= u
          /\ task' = [task EXCEPT ![t] = _process_document(task[t], docs[t])]
          /\ finished' = IF Ended(task'[t]) THEN Append(finished, t) ELSE finished
    /\ UNCHANGED <<src_pos, docs, batch, cursor, gen, had_result, yielded, error>>
    /\ UNCHANGED cacheVars
    /\ UNCHANGED convVars
    /\ UNCHANGED stageVars
    /\ UNCHANGED settingVars

\* map(process_func, input_batch) in the generator's own thread: the next
\* document is processed when its result is asked for.
SeqStart ==
    /\ gen = "seq"
    /\ cursor \in BatchTasks
    /\ task[cursor].pc = "queued"
    /\ task' = [task EXCEPT ![cursor] = _process_document(task[cursor], docs[cursor])]
    /\ finished' = IF Ended(task'[cursor]) THEN Append(finished, cursor) ELSE finished
    /\ UNCHANGED <<src_pos, docs, batch, cursor, gen, had_result, yielded, error>>
    /\ UNCHANGED cacheVars
    /\ UNCHANGED convVars
    /\ UNCHANGED stageVars
    /\ UNCHANGED settingVars

\* pipeline.execute(in_doc, raises_on_error): a result with one of the three
\* statuses a pipeline gives, or - with raises_on_error - the stage's exception.
\* A result that is no SUCCESS carries the error item of the stage that failed.
ExecuteOutcomes ==
    {[pc |-> "done", res |-> "SUCCESS", exc |-> "", errors |-> <<>>],
     [pc |-> "done", res |-> "PARTIAL_SUCCESS", exc |-> "", errors |-> <<"PIPELINE">>],
     [pc |-> "done", res |-> "FAILURE", exc |-> "", errors |-> <<"PIPELINE">>]}
    \cup (IF raises_on_error
          THEN {[pc |-> "raised", res |-> "", exc |-> "PipelineError", errors |-> <<>>]}
          ELSE {})

Execute(t) ==
    /\ task[t].pc = "executing"
    /\ \E o \in ExecuteOutcomes :
          task' = [task EXCEPT ![t].pc = o.pc, ![t].res = o.res, ![t].exc = o.exc,
                               ![t].errors = o.errors]
    /\ finished' = Append(finished, t)
    /\ UNCHANGED <<src_pos, docs, batch, cursor, gen, had_result, yielded, error>>
    /\ UNCHANGED cacheVars
    /\ UNCHANGED convVars
    /\ UNCHANGED stageVars
    /\ UNCHANGED settingVars

\* pipeline.execute(in_doc, raises_on_error) never returns: a stage of the
\* pipeline hangs, and with it the worker that runs the document.
Hang(t) ==
    /\ task[t].pc = "executing"
    /\ task' = [task EXCEPT ![t].pc = "hung"]
    /\ UNCHANGED <<src_pos, docs, batch, cursor, gen, had_result, yielded, finished, error>>
    /\ UNCHANGED cacheVars
    /\ UNCHANGED convVars
    /\ UNCHANGED stageVars
    /\ UNCHANGED settingVars

\* (Faulty variant, for C5: every status passes.)
StatusOkAny(status) == TRUE

\* convert_all's test of a result, lines 263-266.
StatusOk(status) == status \in {"SUCCESS", "PARTIAL_SUCCESS"}

\* (Faulty variant, for C2: the futures are popped without being reversed.)
NextItemReversed == batch[2] - (cursor - batch[1])

\* The index of the document whose result pool.map / map hands out next.
NextItem == cursor

ItemReady ==
    /\ gen \in {"pool", "seq"}
    /\ cursor \in BatchTasks
    /\ task[NextItem].pc = "done"

\* The result of the next document, in input order, goes through _convert's
\* yield and convert_all's test and is yielded to the consumer. convert takes
\* the first result and leaves the generator.
YieldItem ==
    /\ ItemReady
    /\ ~raises_on_error \/ StatusOk(task[NextItem].res)
    /\ had_result' = TRUE
    /\ yielded' = Append(yielded, [doc |-> NextItem, status |-> task[NextItem].res])
    /\ cursor' = cursor + 1
    /\ gen' = IF api = "convert" THEN "returned" ELSE gen
    /\ UNCHANGED <<src_pos, docs, batch, task, finished, error>>
    /\ UNCHANGED cacheVars
    /\ UNCHANGED convVars
    /\ UNCHANGED stageVars
    /\ UNCHANGED settingVars

\* raises_on_error and a status that is neither SUCCESS nor PARTIAL_SUCCESS:
\* convert_all raises instead of yielding.
RaiseOnStatus ==
    /\ ItemReady
    /\ raises_on_error /\ ~StatusOk(task[NextItem].res)
    /\ had_result' = TRUE
    /\ gen' = "raised"
    /\ error' = "ConversionError: status"
    /\ UNCHANGED <<src_pos, docs, batch, cursor, task, yielded, finished>>
    /\ UNCHANGED cacheVars
    /\ UNCHANGED convVars
    /\ UNCHANGED stageVars
    /\ UNCHANGED settingVars

\* The abandoned generators are finalised (after convert_all raised or convert
\* returned): pool.map's iterator cancels the futures not yet started.
GenClose ==
    /\ gen \in {"raised", "returned"}
    /\ \E t \in BatchTasks : task[t].pc = "queued"
    /\ task' = [t \in DOMAIN task |->
                  IF t \in BatchTasks /\ task[t].pc = "queued"
                  THEN [task[t] EXCEPT !.pc = "cancelled"] ELSE task[t]]
    /\ UNCHANGED genVars
    /\ UNCHANGED cacheVars
    /\ UNCHANGED convVars
    /\ UNCHANGED stageVars
    /\ UNCHANGED settingVars

\* Sequential mode: the exception of _process_document leaves map, _convert and
\* convert_all at once.
SeqRaise ==
    /\ gen = "seq"
    /\ cursor \in BatchTasks
    /\ task[cursor].pc = "raised"
    /\ gen' = "raised"
    /\ error' = task[cursor].exc
    /\ UNCHANGED <<src_pos, docs, batch, cursor, task, had_result, yielded, finished>>
    /\ UNCHANGED cacheVars
    /\ UNCHANGED convVars
    /\ UNCHANGED stageVars
    /\ UNCHANGED settingVars

\* Pool mode: future.result() of the next document raises; pool.map's iterator
\* cancels the futures not yet started, and the with block waits for the workers.
PoolRaise ==
    /\ gen = "pool"
    /\ cursor \in BatchTasks
    /\ task[cursor].pc = "raised"
    /\ gen' = "pool_abort"
    /\ task' = [t \in DOMAIN task |->
                  IF t \in BatchTasks /\ task[t].pc = "queued"
                  THEN [task[t] EXCEPT !.pc = "cancelled"] ELSE task[t]]
    /\ UNCHANGED <<src_pos, docs, batch, cursor, had_result, yielded, finished, error>>
    /\ UNCHANGED cacheVars
    /\ UNCHANGED convVars
    /\ UNCHANGED stageVars
    /\ UNCHANGED settingVars

\* ThreadPoolExecutor.__exit__: shutdown(wait=True) has joined the workers; the
\* exception leaves _convert and convert_all.
PoolPropagate ==
    /\ gen = "pool_abort"
    /\ \A t \in BatchTasks : ~Running(task[t])
    /\ gen' = "raised"
    /\ error' = task[cursor].exc
    /\ UNCHANGED <<src_pos, docs, batch, cursor, task, had_result, yielded, finished>>
    /\ UNCHANGED cacheVars
    /\ UNCHANGED convVars
    /\ UNCHANGED stageVars
    /\ UNCHANGED settingVars

\* (Faulty variant, for C3: the batch is left one result early.)
BatchDoneEarly ==
    /\ gen \in {"pool", "seq"}
    /\ cursor >= batch[2]
    /\ gen' = "next_batch"
    /\ UNCHANGED <<src_pos, docs, batch, cursor, task, had_result, yielded, finished, error>>
    /\ UNCHANGED cacheVars
    /\ UNCHANGED convVars
    /\ UNCHANGED stageVars
    /\ UNCHANGED settingVars

\* Every result of the batch has been yielded: the pool is shut down and the
\* loop over chunkify goes on.
BatchDone ==
    /\ gen \in {"pool", "seq"}
    /\ cursor > batch[2]
    /\ gen' = "next_batch"
    /\ UNCHANGED <<src_pos, docs, batch, cursor, task, had_result, yielded, finished, error>>
    /\ UNCHANGED cacheVars
    /\ UNCHANGED convVars
    /\ UNCHANGED stageVars
    /\ UNCHANGED settingVars

\* (Faulty variant, for C6: had_result is not consulted.)
ExhaustedAlwaysRaises ==
    /\ gen = "next_batch"
    /\ chunkify(src_pos, doc_batch_size, <<>>)[2] = <<>>
    /\ src_pos' = Len(source)
    /\ IF raises_on_error
       THEN gen' = "raised" /\ error' = "ConversionError: no result"
       ELSE IF api = "convert"
            THEN gen' = "raised" /\ error' = "StopIteration"
            ELSE gen' = "done" /\ error' = error
    /\ UNCHANGED <<docs, batch, cursor, task, had_result, yielded, finished>>
    /\ UNCHANGED cacheVars
    /\ UNCHANGED convVars
    /\ UNCHANGED stageVars
    /\ UNCHANGED settingVars

\* (Faulty variant, for C30: an input without result is an error in any mode.)
ExhaustedIgnoresMode ==
    /\ gen = "next_batch"
    /\ chunkify(src_pos, doc_batch_size, <<>>)[2] = <<>>
    /\ src_pos' = Len(source)
    /\ IF ~had_result
       THEN gen' = "raised" /\ error' = "ConversionError: no result"
       ELSE IF api = "convert"
            THEN gen' = "raised" /\ error' = "StopIteration"
            ELSE gen' = "done" /\ error' = error
    /\ UNCHANGED <<docs, batch, cursor, task, had_result, yielded, finished>>
    /\ UNCHANGED cacheVars
    /\ UNCHANGED convVars
    /\ UNCHANGED stageVars
    /\ UNCHANGED settingVars

\* The input is exhausted: _convert ends and convert_all makes its last test,
\* lines 273-276. When convert_all ends without a result, next(all_res) in
\* convert raises StopIteration.
Exhausted ==
    /\ gen = "next_batch"
    /\ chunkify(src_pos, doc_batch_size, <<>>)[2] = <<>>
    /\ src_pos' = Len(source)
    /\ IF ~had_result /\ raises_on_error
       THEN gen' = "raised" /\ error' = "ConversionError: no result"
       ELSE IF api = "convert"
            THEN gen' = "raised" /\ error' = "StopIteration"
            ELSE gen' = "done" /\ error' = error
    /\ UNCHANGED <<docs, batch, cursor, task, had_result, yielded, finished>>
    /\ UNCHANGED cacheVars
    /\ UNCHANGED convVars
    /\ UNCHANGED stageVars
    /\ UNCHANGED settingVars

(***************************************************************************)
(* Spec: one convert or convert_all call on a converter that allows PDF    *)
(* and IMAGE, with default options or with a PDF FormatOption whose        *)
(* pipeline_options is None.                                               *)
(***************************************************************************)
EngineFormats == {"PDF", "IMAGE"}
EngineCustoms ==
    {EmptyDict,
     [f \in {"PDF"} |-> [pipeline_cls |-> "StandardPdfPipeline", pipeline_options |-> NoneOptions,
                         backend |-> "DoclingParseV4DocumentBackend"]]}

NoTask == [IdleTask EXCEPT !.pc = "none"]

Init ==
    /\ conv = "ready"
    /\ allowed_formats = EngineFormats
    /\ format_options \in EngineCustoms
    /\ format_to_options = Resolve(allowed_formats, format_options)
    /\ Quiet
    /\ NoStage
    /\ task = [t \in 1..MaxSources |-> NoTask]
    /\ raises_on_error \in BOOLEAN
    /\ doc_batch_size \in 1..MaxBatch
    /\ doc_batch_concurrency \in 1..MaxWorkers
    /\ api \in {"convert", "convert_all"}
    /\ source \in SeqsUpTo(SourceKinds, MaxSources)
    /\ api = "convert" => Len(source) = 1
    /\ gen = "next_batch"

Next ==
    \/ TakeBatch
    \/ \E t \in DOMAIN task : WorkerStart(t)
    \/ SeqStart
    \/ \E t \in DOMAIN task : LockAcquire(t)
    \/ \E t \in DOMAIN task : CacheHit(t)
    \/ \E t \in DOMAIN task : CacheMiss(t)
    \/ \E t \in DOMAIN task : CtorReturn(t)
    \/ \E t \in DOMAIN task : CtorRaise(t)
    \/ \E t \in DOMAIN task : Execute(t)
    \/ YieldItem
    \/ RaiseOnStatus
    \/ GenClose
    \/ SeqRaise
    \/ PoolRaise
    \/ PoolPropagate
    \/ BatchDone
    \/ Exhausted

Spec == Init /\ [][Next]_vars

(***************************************************************************)
(* Claims on the batch conversion engine.                                  *)
(***************************************************************************)
RECURSIVE CountRecognized(_)
CountRecognized(q) ==
    IF q = <<>> THEN 0
    ELSE (IF Head(q).recognized THEN 1 ELSE 0) + CountRecognized(Tail(q))

NRecognized == CountRecognized(source)

\* Documents fill the batches in order, doc_batch_size to a batch.
BatchOf(d) == (d - 1) \div doc_batch_size

Statuses == {"SUCCESS", "PARTIAL_SUCCESS", "FAILURE", "SKIPPED"}

\* C2: with the worker pool in use, the results of one batch are yielded in the
\* order of their documents, each being the result _process_document returned
\* for its document, whatever the order in which the workers finished; when the
\* batch is done every document of it has been yielded once.
C2_OrderInBatch ==
    Concurrent =>
        /\ \A i \in DOMAIN yielded :
              /\ task[yielded[i].doc].pc = "done"
              /\ yielded[i].status = task[yielded[i].doc].res
        /\ \A i, j \in DOMAIN yielded :
              (i < j /\ BatchOf(yielded[i].doc) = BatchOf(yielded[j].doc))
              => yielded[i].doc < yielded[j].doc
        /\ gen = "next_batch" =>
              \A t \in BatchTasks : Cardinality({i \in DOMAIN yielded : yielded[i].doc = t}) = 1

\* Two documents of one batch finished in the reverse of their input order and
\* both results have been yielded.
C2_Witness ==
    /\ Concurrent
    /\ \E i, j \in DOMAIN finished :
          /\ i < j /\ finished[i] > finished[j]
          /\ BatchOf(finished[i]) = BatchOf(finished[j])
          /\ \E a, b \in DOMAIN yielded : yielded[a].doc = finished[i] /\ yielded[b].doc = finished[j]

\* C3: for every batch size and worker count the i-th result yielded is the
\* result of the i-th recognised source; no document of a batch is taken or
\* started before every result of the batch before it has been yielded; and a
\* convert_all that ends normally has yielded one result per recognised source.
C3_StreamOrder ==
    /\ \A i \in DOMAIN yielded : yielded[i].doc = i /\ yielded[i].status = task[i].res
    /\ Len(docs) = batch[2]
    /\ \A t \in DOMAIN task : task[t].pc # "none" <=> t <= Len(docs)
    /\ Len(yielded) >= batch[1] - 1
    /\ gen = "done" => Len(yielded) = NRecognized

\* Three documents in two batches, converted by the pool, all yielded.
C3_Witness ==
    /\ gen = "done"
    /\ Concurrent
    /\ Len(yielded) = MaxSources
    /\ batch[1] > 1

\* C4: with raises_on_error = False convert_all never raises, ends having
\* yielded as many results as there are recognised sources, and every result
\* yielded has one of the four statuses.
C4_LenientAllResults ==
    (~raises_on_error /\ api = "convert_all") =>
        /\ gen \notin {"raised", "pool_abort"}
        /\ error = ""
        /\ gen = "done" => Len(yielded) = NRecognized
        /\ \A i \in DOMAIN yielded : yielded[i].status \in Statuses

\* C5: with raises_on_error = True only results with status SUCCESS or
\* PARTIAL_SUCCESS are yielded; when the next result in order has another
\* status convert_all raises ConversionError without yielding it; and once
\* convert_all has raised nothing more is yielded.
C5_StrictAbort ==
    [][raises_on_error =>
          /\ \A i \in DOMAIN yielded' : StatusOk(yielded'[i].status)
          /\ gen = "raised" => (gen' = "raised" /\ yielded' = yielded /\ error' = error)
          /\ (/\ gen \in {"pool", "seq"}
              /\ cursor \in BatchTasks
              /\ task[cursor].pc = "done"
              /\ task[cursor].res \notin {"SUCCESS", "PARTIAL_SUCCESS"}
              /\ <<gen, cursor, yielded>>' # <<gen, cursor, yielded>>)
             => (gen' = "raised" /\ error' = "ConversionError: status" /\ yielded' = yielded)]_vars

\* convert_all has raised on a FAILURE result after it had yielded a result.
C5_Witness ==
    /\ raises_on_error
    /\ gen = "raised"
    /\ error = "ConversionError: status"
    /\ Len(yielded) >= 1
    /\ task[cursor].res = "FAILURE"

\* C6: with raises_on_error = True and an input without any recognised source,
\* convert_all (and so convert) ends by raising ConversionError once the stream
\* is exhausted; that error is raised only when no document was produced and
\* no result was yielded.
C6_NoResultError ==
    /\ (raises_on_error /\ NRecognized = 0) =>
          /\ gen \in {"next_batch", "raised"}
          /\ gen = "raised" => (error = "ConversionError: no result" /\ src_pos = Len(source))
    /\ error = "ConversionError: no result" =>
          /\ raises_on_error
          /\ gen = "raised"
          /\ ~had_result
          /\ yielded = <<>>
          /\ docs = <<>>
          /\ src_pos = Len(source)

\* convert has failed on a source that is not recognised.
C6_Witness ==
    /\ api = "convert"
    /\ Len(source) = 1
    /\ error = "ConversionError: no result"

\* C9: the step that starts _process_document on a document whose format is
\* not allowed leaves the pipeline cache and its lock alone and ends at once,
\* with a SKIPPED result carrying the one error item USER_INPUT (lenient) or
\* with ConversionError (strict); for an allowed format the step goes into
\* _execute_pipeline. A document of a format that is not allowed never is
\* inside _get_pipeline or pipeline.execute.
C9_FormatNotAllowed ==
    [][\A t \in DOMAIN task :
          /\ (t <= Len(docs) /\ docs[t].format \notin allowed_formats)
             => (~Running(task[t]) /\ task[t].pipeline = 0)
          /\ (task[t].pc = "queued" /\ task'[t].pc \notin {"queued", "cancelled"}) =>
                IF docs[t].format \notin allowed_formats
                THEN /\ <<initialized_pipelines, lock, ctor_calls, returned>>'
                          = <<initialized_pipelines, lock, ctor_calls, returned>>
                     /\ task'[t].pipeline = 0
                     /\ IF raises_on_error
                        THEN /\ task'[t].pc = "raised"
                             /\ task'[t].exc = "ConversionError: format not allowed"
                        ELSE /\ task'[t].pc = "done"
                             /\ task'[t].res = "SKIPPED"
                             /\ task'[t].errors = <<"USER_INPUT">>
                ELSE task'[t].caller = "_execute_pipeline"]_vars

\* A SKIPPED result with its error item has been yielded in lenient mode.
C9_Witness ==
    /\ ~raises_on_error
    /\ \E i \in DOMAIN yielded :
          /\ yielded[i].status = "SKIPPED"
          /\ task[yielded[i].doc].errors = <<"USER_INPUT">>
          /\ docs[yielded[i].doc].format \notin allowed_formats

\* C11: with raises_on_error = False, the step in which the pipeline constructor
\* raises for a document being converted ends that document with a FAILURE
\* result that carries an error item, and no RuntimeError ever leaves
\* convert_all.
C11_LenientCtorFailure ==
    [][~raises_on_error =>
          /\ error' # "RuntimeError"
          /\ \A t \in DOMAIN task :
                (/\ task[t].caller = "_execute_pipeline"
                 /\ task[t].pc = "constructing"
                 /\ ctor_fails'[task[t].key] = ctor_fails[task[t].key] + 1)
                => /\ task'[t].pc = "done"
                   /\ task'[t].res = "FAILURE"
                   /\ task'[t].errors # <<>>]_vars

\* The positions of _get_pipeline inside the with block, where the cache is
\* read (line 331, line 343) and written (line 335).
InCriticalSection(tk) == tk.pc \in {"in_lock", "constructing"}

\* C12: a thread is at a cache read or write of _get_pipeline only while it
\* holds _PIPELINE_CACHE_LOCK, the cache changes only in a step of the lock's
\* holder, the lock is held by nobody outside the check-then-insert section,
\* and so never by a thread that is inside pipeline.execute.
C12_LockDiscipline ==
    [][/\ \A t \in DOMAIN task :
             /\ InCriticalSection(task'[t]) => lock' = t
             /\ task'[t].pc = "executing" => lock' # t
       /\ lock' # 0 => InCriticalSection(task'[lock'])
       /\ initialized_pipelines' # initialized_pipelines
          => (lock # 0 /\ task[lock].pc = "constructing" /\ lock' = 0)]_vars

\* While one document is inside pipeline.execute another thread holds the lock
\* and looks its key up in the cache.
C12_Witness ==
    \E t, u \in DOMAIN task :
        /\ t # u
        /\ task[t].pc = "executing"
        /\ task[u].pc = "in_lock"
        /\ lock = u

\* C14: with raises_on_error = False every result yielded with status FAILURE
\* or SKIPPED carries at least one error item.
C14_FailuresCarryErrorItems ==
    ~raises_on_error =>
        \A i \in DOMAIN yielded :
            yielded[i].status \in {"FAILURE", "SKIPPED"}
            => task[yielded[i].doc].errors # <<>>

\* A document whose _process_document call has begun.
Started(tk) == tk.pc \notin {"none", "queued", "cancelled"}

\* C21: a batch taken from the input goes to the worker pool exactly when
\* doc_batch_concurrency > 1 and doc_batch_size > 1, and to the sequential map
\* otherwise; in the sequential case at most one document is being processed,
\* and a document is started only when it is the next in input order and the
\* results of all documents before it have been yielded.
C21_PoolIffConcurrent ==
    [][/\ docs' # docs =>
             /\ gen' = "pool" <=> (doc_batch_concurrency > 1 /\ doc_batch_size > 1)
             /\ gen' = "seq" <=> ~(doc_batch_concurrency > 1 /\ doc_batch_size > 1)
       /\ ~(doc_batch_concurrency > 1 /\ doc_batch_size > 1) =>
             /\ gen' \notin {"pool", "pool_abort"}
             /\ Cardinality({t \in DOMAIN task : Running(task'[t])}) <= 1
             /\ \A t \in DOMAIN task :
                   (Started(task'[t]) /\ ~Started(task[t])) =>
                       /\ t = cursor
                       /\ Len(yielded) = t - 1
                       /\ \A u \in 1..(t - 1) : yielded[u].doc = u]_vars

\* More than one worker is configured but the batch size is one: two documents
\* have been converted one after the other, each in a batch of its own.
C21_Witness ==
    /\ doc_batch_concurrency > 1
    /\ doc_batch_size = 1
    /\ gen = "seq"
    /\ Len(yielded) >= 2
    /\ batch = <<3, 3>>

\* C25: the documents taken from the input and not yet yielded never number
\* more than doc_batch_size; the input has been read no further than the last
\* document taken (or to its end); and a step that takes documents from the
\* input finds the result of every document taken before already yielded.
C25_LazyBatches ==
    [][/\ Len(docs') - Len(yielded') <= doc_batch_size
       /\ CountRecognized(SubSeq(source, 1, src_pos')) = Len(docs')
       /\ (src_pos' < Len(source) /\ src_pos' > 0) => source[src_pos'].recognized
       /\ docs' # docs =>
             /\ Len(yielded) = Len(docs)
             /\ \A t \in 1..Len(docs) : \E i \in DOMAIN yielded : yielded[i].doc = t]_vars

\* The second batch has been taken, after the first was yielded, while the
\* input still holds a source that has not been read.
C25_Witness ==
    /\ batch[1] > 1
    /\ src_pos < Len(source)
    /\ Len(docs) - Len(yielded) = doc_batch_size
    /\ Len(yielded) = batch[1] - 1

\* C28: once convert_all has raised with raises_on_error = True, nothing more is
\* read from the input, no document is added, no document beyond the current
\* batch exists or is ever started, and - when the batch is processed
\* sequentially - no document after the one convert_all failed on has been or
\* is ever started.
C28_AbortStopsInput ==
    [][(raises_on_error /\ gen' = "raised") =>
          /\ \A t \in DOMAIN task : t > batch'[2] => task'[t].pc = "none"
          /\ Len(docs') = batch'[2]
          /\ ~(doc_batch_concurrency > 1 /\ doc_batch_size > 1) =>
                \A t \in DOMAIN task : t > cursor' => ~Started(task'[t])
          /\ gen = "raised" =>
                /\ <<src_pos, docs, batch, cursor, yielded, error>>'
                     = <<src_pos, docs, batch, cursor, yielded, error>>
                /\ \A t \in DOMAIN task : Started(task'[t]) => task[t].pc # "none"]_vars

\* Sequential processing with a batch of two: convert_all has raised on the
\* first document, the second was never started, and the input holds a further
\* source that was not read.
C28_Witness ==
    /\ raises_on_error
    /\ gen = "raised"
    /\ doc_batch_concurrency = 1
    /\ doc_batch_size = 2
    /\ cursor = 1
    /\ Len(docs) = 2
    /\ task[2].pc \in {"queued", "cancelled"}
    /\ src_pos < Len(source)

\* C30: with raises_on_error = False and an input without any recognised
\* source, convert_all makes no document, yields nothing and raises nothing,
\* and the step that finds the input exhausted ends it normally.
C30_LenientEmptyInput ==
    [][(~raises_on_error /\ api = "convert_all" /\ NRecognized = 0) =>
          /\ docs' = <<>>
          /\ yielded' = <<>>
          /\ ~had_result'
          /\ error' = ""
          /\ gen' \in {"next_batch", "done"}
          /\ gen' # gen => (gen' = "done" /\ src_pos' = Len(source))]_vars

\* convert_all has ended normally, without a result, on a stream of sources
\* none of which was recognised.
C30_Witness ==
    /\ ~raises_on_error
    /\ api = "convert_all"
    /\ Len(source) >= 2
    /\ NRecognized = 0
    /\ gen = "done"
    /\ yielded = <<>>
    /\ error = ""

(***************************************************************************)
(* SpecPool: one convert_all call with the worker pool in use              *)
(* (doc_batch_concurrency > 1 and doc_batch_size > 1) on a stream of valid *)
(* PDF sources, where a pipeline.execute call may hang. The batch size     *)
(* goes up to the length of the stream, so that a batch can hold more      *)
(* documents than there are workers.                                       *)
(***************************************************************************)
PoolKinds == {[recognized |-> TRUE, format |-> "PDF", valid |-> TRUE]}

InitPool ==
    /\ conv = "ready"
    /\ allowed_formats = EngineFormats
    /\ format_options = EmptyDict
    /\ format_to_options = Resolve(allowed_formats, format_options)
    /\ Quiet
    /\ NoStage
    /\ task = [t \in 1..MaxSources |-> NoTask]
    /\ raises_on_error \in BOOLEAN
    /\ doc_batch_size \in 2..MaxSources
    /\ doc_batch_concurrency \in 2..MaxWorkers
    /\ api = "convert_all"
    /\ source \in SeqsUpTo(PoolKinds, MaxSources)
    /\ gen = "next_batch"

NextPool ==
    \/ TakeBatch
    \/ \E t \in DOMAIN task : WorkerStart(t)
    \/ \E t \in DOMAIN task : LockAcquire(t)
    \/ \E t \in DOMAIN task : CacheHit(t)
    \/ \E t \in DOMAIN task : CacheMiss(t)
    \/ \E t \in DOMAIN task : CtorReturn(t)
    \/ \E t \in DOMAIN task : CtorRaise(t)
    \/ \E t \in DOMAIN task : Execute(t)
    \/ \E t \in DOMAIN task : Hang(t)
    \/ YieldItem
    \/ RaiseOnStatus
    \/ GenClose
    \/ PoolRaise
    \/ PoolPropagate
    \/ BatchDone
    \/ Exhausted

SpecPool == InitPool /\ [][NextPool]_vars

\* C22: with the worker pool in use, at most doc_batch_concurrency documents
\* are being processed at any time, all of them of the current batch, and a
\* document of a batch has been started only if every document of the batches
\* before it has ended.
C22_PoolBounded ==
    /\ Cardinality({t \in DOMAIN task : Running(task[t])}) <= doc_batch_concurrency
    /\ \A t \in DOMAIN task : Running(task[t]) => t \in BatchTasks
    /\ \A t, u \in DOMAIN task :
          (Started(task[t]) /\ BatchOf(u) < BatchOf(t)) => Ended(task[u])

\* A batch holds more documents than there are workers: as many documents as
\* there are workers are being processed and the next one waits in the queue.
C22_Witness ==
    /\ Cardinality(BatchTasks) > doc_batch_concurrency
    /\ Cardinality({t \in BatchTasks : Running(task[t])}) = doc_batch_concurrency
    /\ \E t \in BatchTasks : task[t].pc = "queued"

\* The threads of the pool are scheduled by the operating system: a worker that
\* can take a document, enter or leave the lock, or look the cache up does so;
\* a constructor ends, by returning or raising; a pipeline.execute call ends or
\* hangs for good. Nothing is assumed of the consumer of the results.
WorkerStep(t) ==
    \/ WorkerStart(t)
    \/ LockAcquire(t)
    \/ CacheHit(t)
    \/ CacheMiss(t)
    \/ CtorReturn(t) \/ CtorRaise(t)
    \/ Execute(t) \/ Hang(t)

WorkerFairness == \A t \in 1..MaxSources : WF_vars(WorkerStep(t))

SpecPoolFair == SpecPool /\ WorkerFairness

NHung == Cardinality({t \in DOMAIN task : task[t].pc = "hung"})

\* Nothing of the batch is left to a worker that is not hung: every document
\* has ended, hangs, or was cancelled when convert_all was aborted.
SiblingsSettled ==
    \A u \in BatchTasks :
        \/ Ended(task[u])
        \/ task[u].pc = "hung"
        \/ task[u].pc = "cancelled" /\ gen \in {"raised", "pool_abort"}

\* While document t hangs: it is of the current batch, neither its result nor
\* that of a later document has been yielded, no document of a later batch has
\* been taken from the input, the generator has not left the batch, and no
\* worker's exception has left the with block of the pool.
HungBlocks(t) ==
    /\ t \in BatchTasks
    /\ \A i \in DOMAIN yielded : yielded[i].doc < t
    /\ Len(docs) = batch[2]
    /\ \A u \in DOMAIN task : u > batch[2] => task[u].pc = "none"
    /\ gen \notin {"next_batch", "done"}
    /\ error \in {"", "ConversionError: status"}

\* C23: with the pool in use, while fewer documents hang than there are workers
\* every other document of the batch is processed to its end; and a document that
\* hangs keeps its result and those of the documents after it from being
\* yielded, the pool from being shut down and any later batch from being taken.
C23_HungDocument ==
    /\ [](\A t \in DOMAIN task : task[t].pc = "hung" => HungBlocks(t))
    /\ (NHung > 0) ~> (NHung >= doc_batch_concurrency \/ SiblingsSettled)

\* The first document of a batch of two hangs, the second one was converted
\* beside it, and the stream holds a third source that is not taken.
C23_Witness ==
    /\ task[1].pc = "hung"
    /\ task[2].pc = "done"
    /\ task[2].res = "SUCCESS"
    /\ yielded = <<>>
    /\ Len(source) = 3
    /\ src_pos = 2

(***************************************************************************)
(* SpecWarm: the caller pre-warms pipelines with initialize_pipeline and   *)
(* then converts a stream of at most MaxBatch sources in its own thread    *)
(* (doc_batch_concurrency = 1).                                            *)
(***************************************************************************)
\* The caller's thread; the documents of the stream are 1..MaxSources.
Main == MaxSources + 1

\* The formats initialize_pipeline is called with: one the converter allows and
\* one it has no FormatOption for.
WarmFormats == {"PDF", "DOCX"}

WarmKinds ==
    {[recognized |-> FALSE, format |-> "", valid |-> FALSE],
     [recognized |-> TRUE, format |-> "PDF", valid |-> TRUE],
     [recognized |-> TRUE, format |-> "IMAGE", valid |-> TRUE],
     [recognized |-> TRUE, format |-> "DOCX", valid |-> TRUE]}

\* convert(source, raises_on_error) or convert_all(source, raises_on_error) is
\* called, lines 230-238 and 250-261.
StartConversion ==
    /\ conv = "ready"
    /\ api = "none"
    /\ task[Main].pc = "idle"
    /\ api' \in {"convert", "convert_all"}
    /\ api' = "convert" => Len(source) = 1
    /\ gen' = "next_batch"
    /\ UNCHANGED <<raises_on_error, doc_batch_size, doc_batch_concurrency, source>>
    /\ UNCHANGED <<src_pos, docs, batch, cursor, task, had_result, yielded, finished, error>>
    /\ UNCHANGED cacheVars
    /\ UNCHANGED convVars
    /\ UNCHANGED stageVars

InitWarm ==
    /\ conv = "ready"
    /\ allowed_formats = EngineFormats
    /\ format_options \in EngineCustoms
    /\ format_to_options = Resolve(allowed_formats, format_options)
    /\ Quiet
    /\ NoStage
    /\ task = [t \in 1..Main |-> IF t = Main THEN IdleTask ELSE NoTask]
    /\ raises_on_error \in BOOLEAN
    /\ doc_batch_size \in 1..MaxBatch
    /\ doc_batch_concurrency = 1
    /\ api = "none"
    /\ source \in SeqsUpTo(WarmKinds, MaxBatch)
    /\ gen = "none"

NextWarm ==
    \/ \E f \in WarmFormats : InitializePipeline(Main, f)
    \/ StartConversion
    \/ TakeBatch
    \/ SeqStart
    \/ \E t \in DOMAIN task : LockAcquire(t)
    \/ \E t \in DOMAIN task : CacheHit(t)
    \/ \E t \in DOMAIN task : CacheMiss(t)
    \/ \E t \in DOMAIN task : CtorReturn(t)
    \/ \E t \in DOMAIN task : CtorRaise(t)
    \/ \E t \in DOMAIN task : Execute(t)
    \/ YieldItem
    \/ RaiseOnStatus
    \/ GenClose
    \/ SeqRaise
    \/ BatchDone
    \/ Exhausted

SpecWarm == InitWarm /\ [][NextWarm]_vars

\* The initialize_pipeline calls that returned a pipeline.
Warmed(rs) == {r \in rs : r.thread = Main}

\* C13: an initialize_pipeline call that returns has the pipeline of its format
\* in the cache; from then on the constructor is not invoked again for that key
\* and every document whose format has that key is converted by that very
\* instance. The call raises ConversionError when the format has no
\* FormatOption (or no options) and the constructor's exception when the
\* constructor fails, whatever raises_on_error is, and returns normally
\* otherwise.
C13_PreWarm ==
    [][/\ \A r \in Warmed(returned') :
             /\ KeyOf(r) \in DOMAIN initialized_pipelines'
             /\ initialized_pipelines'[KeyOf(r)] = r.inst
             /\ r \in returned => ctor_calls'[KeyOf(r)] = ctor_calls[KeyOf(r)]
             /\ \A t \in 1..MaxSources :
                   (task'[t].pipeline # 0 /\ task'[t].key = KeyOf(r)) => task'[t].pipeline = r.inst
       /\ (/\ task'[Main].pc = "idle"
           /\ task[Main].pc # "idle" \/ task'[Main].calls # task[Main].calls)
          => IF ~HasPipelineOptions(task'[Main].fmt)
             THEN /\ task'[Main].exc = "ConversionError: no pipeline"
                  /\ cacheVars' = cacheVars
             ELSE IF ctor_fails' # ctor_fails
                  THEN task'[Main].exc = "RuntimeError"
                  ELSE /\ task'[Main].exc = ""
                       /\ Returned(Main, task[Main], task'[Main].pipeline) \in returned'
                       /\ task'[Main].pipeline # 0]_vars

\* initialize_pipeline constructed the pipeline, and a document converted
\* afterwards ran on that instance with the constructor called once in all.
C13_Witness ==
    \E r \in Warmed(returned), i \in DOMAIN yielded :
        /\ r.first
        /\ ctor_calls[KeyOf(r)] = 1
        /\ yielded[i].status = "SUCCESS"
        /\ task[yielded[i].doc].key = KeyOf(r)
        /\ task[yielded[i].doc].pipeline = r.inst

(***************************************************************************)
(* The OCR stage: TesseractOcrModel.__call__                               *)
(* (src/docling/models/tesseract_ocr_model.py).                            *)
(***************************************************************************)
MaxPages == 2       \* pages in a page batch
MaxRects == 2       \* OCR rectangles of a page batch, over all its pages
MaxBoxes == 1       \* text lines GetComponentImages finds in a region

\* An OCR rectangle by its width and height; BoundingBox.area().
RectKinds == {[w |-> 0, h |-> 1], [w |-> 2, h |-> 1]}

area(ocr_rect) == ocr_rect.w * ocr_rect.h

\* A page of the batch: page._backend.is_valid() and get_ocr_rects(page).
PageKinds ==
    {[valid |-> FALSE, rects |-> <<>>]}
    \cup {[valid |-> TRUE, rects |-> q] : q \in SeqsUpTo(RectKinds, MaxRects)}

RECURSIVE TotalRects(_)
TotalRects(ps) ==
    IF ps = <<>> THEN 0 ELSE Len(Head(ps).rects) + TotalRects(Tail(ps))

\* The page batches of the model.
PageBatches == {b \in SeqsUpTo(PageKinds, MaxPages) : TotalRects(b) <= MaxRects}

\* self.reader, the recognizer built in __init__; the recognizers of
\* self.script_readers are numbered from 2 on.
reader == 1

\* tesserocr.get_languages(), each name as <<prefix, name>>.
_tesserocr_languages == {<<"", "eng">>, <<"script/", "Latin">>, <<"script/", "HanS">>}

\* Lines 83-86.
script_prefix ==
    IF \E lang \in _tesserocr_languages : lang[1] = "script/" THEN "script/" ELSE ""

\* osd_reader.DetectOrientationScript(): None, or the orientation and the script.
OsdNone == [none |-> TRUE, orient_deg |-> 0, script_name |-> ""]

OsdResults ==
    {OsdNone,
     [none |-> FALSE, orient_deg |-> 0, script_name |-> "Latin"],
     [none |-> FALSE, orient_deg |-> 90, script_name |-> "Han"],
     [none |-> FALSE, orient_deg |-> 0, script_name |-> "Cyrillic"]}

\* docling.utils.ocr_utils.parse_tesseract_orientation: the clockwise angle
\* tesseract reports, as a counterclockwise angle in [0, 360).
parse_tesseract_orientation(orient_deg) == (360 - orient_deg) % 360

\* docling.utils.ocr_utils.map_tesseract_script
map_tesseract_script(script) ==
    CASE script = "Han" -> "HanS"
      [] script = "Katakana" -> "Japanese"
      [] script = "Hiragana" -> "Japanese"
      [] script = "Korean" -> "Hangul"
      [] OTHER -> script

\* (Faulty variant, for C15: zero-area rectangles are not skipped.)
ZeroAreaNever(ocr_rect) == FALSE

\* Line 139: if ocr_rect.area() == 0
ZeroArea(ocr_rect) == area(ocr_rect) = 0

\* (Faulty variant, for C16: a region without an OSD result is skipped in any mode.)
OsdSkipAnyMode(osd) == osd.none

\* Lines 152-163: the region is left when OSD gave nothing and the mode is auto.
OsdSkip(osd) == osd.none /\ is_auto

\* Lines 148, 165-167: doc_orientation
doc_orientation(osd) ==
    IF osd.none THEN 0 ELSE parse_tesseract_orientation(osd.orient_deg)

\* Lines 172-178: does the region get a recognizer of its script?
UsesScriptReader(osd) ==
    /\ is_auto
    /\ <<script_prefix, map_tesseract_script(osd.script_name)>> \in _tesserocr_languages

\* (Faulty variant, for C26: a recognizer is built for every region of an
\* installed script.)
ConstructsAlways(osd) == UsesScriptReader(osd)

\* Line 183: is a recognizer constructed for the region's script?
Constructs(osd) ==
    /\ UsesScriptReader(osd)
    /\ map_tesseract_script(osd.script_name) \notin DOMAIN script_readers

\* The tesserocr.PyTessBaseAPI calls of lines 187-193 made so far.
Constructed == {c \in ocr_calls : c.op = "PyTessBaseAPI"}

\* Lines 183-194: self.script_readers after the region's recognizer was chosen;
\* a recognizer that is constructed is a new object.
ScriptReadersAfter(osd) ==
    IF Constructs(osd)
    THEN DictPut(script_readers, map_tesseract_script(osd.script_name),
                 Cardinality(Constructed) + 2)
    ELSE script_readers

\* Lines 145, 195: local_reader
local_reader(osd) ==
    IF UsesScriptReader(osd)
    THEN ScriptReadersAfter(osd)[map_tesseract_script(osd.script_name)]
    ELSE reader

\* Lines 197-211: what the recognizer does with the region: it finds n text
\* lines (0..MaxBoxes), or GetUTF8Text raises RuntimeError (tesserocr does when
\* recognition fails).
RecogOutcomes == {[raises |-> FALSE, n |-> n] : n \in 0..MaxBoxes} \cup {[raises |-> TRUE, n |-> 0]}

\* Lines 202-238: the cells of a region, one per text line.
Cells(n, r, osd) ==
    [ix \in 1..n |->
        [index |-> ix - 1, from_ocr |-> TRUE, page |-> page_i + 1, original_offset |-> r,
         orientation |-> doc_orientation(osd), reader |-> local_reader(osd)]]

Call(op, r, rd, rotated) ==
    [op |-> op, page |-> page_i + 1, rect |-> r, reader |-> rd, rotated |-> rotated]

\* The current page and its rectangles.
CurPage == page_batch[page_i + 1]

\* if not self.enabled: yield from page_batch (one page of it)
OcrPassThrough ==
    /\ ocr_pc = "run"
    /\ ~enabled
    /\ page_i < Len(page_batch)
    /\ out_pages' = Append(out_pages, page_i + 1)
    /\ page_i' = page_i + 1
    /\ UNCHANGED <<enabled, is_auto, page_batch, ocr_pc, rect_i, all_ocr_cells, page_cells,
                   script_readers, ocr_calls, ocr_log, detected, ocr_error>>
    /\ UNCHANGED <<cacheVars, convVars, settingVars, genVars, task, asmVars>>

\* Lines 124-127: a page whose backend is not valid is yielded as it is.
OcrInvalidPage ==
    /\ ocr_pc = "run"
    /\ enabled
    /\ page_i < Len(page_batch)
    /\ ~CurPage.valid
    /\ out_pages' = Append(out_pages, page_i + 1)
    /\ page_i' = page_i + 1
    /\ UNCHANGED <<enabled, is_auto, page_batch, ocr_pc, rect_i, all_ocr_cells, page_cells,
                   script_readers, ocr_calls, ocr_log, detected, ocr_error>>
    /\ UNCHANGED <<cacheVars, convVars, settingVars, genVars, task, asmVars>>

\* Lines 128-136: a valid page: get_ocr_rects(page), all_ocr_cells = []
OcrPageStart ==
    /\ ocr_pc = "run"
    /\ enabled
    /\ page_i < Len(page_batch)
    /\ CurPage.valid
    /\ ocr_pc' = "rects"
    /\ rect_i' = 0
    /\ all_ocr_cells' = <<>>
    /\ UNCHANGED <<enabled, is_auto, page_batch, page_i, page_cells, out_pages,
                   script_readers, ocr_calls, ocr_log, detected, ocr_error>>
    /\ UNCHANGED <<cacheVars, convVars, settingVars, genVars, task, asmVars>>

\* Lines 137-140: the next rectangle has no area: continue
OcrSkipZeroArea ==
    /\ ocr_pc = "rects"
    /\ rect_i < Len(CurPage.rects)
    /\ ZeroArea(CurPage.rects[rect_i + 1])
    /\ rect_i' = rect_i + 1
    /\ UNCHANGED <<enabled, is_auto, page_batch, ocr_pc, page_i, all_ocr_cells, page_cells,
                   out_pages, script_readers, ocr_calls, ocr_log, detected, ocr_error>>
    /\ UNCHANGED <<cacheVars, convVars, settingVars, genVars, task, asmVars>>

\* Lines 141-241: the next rectangle is rendered, given to the OSD detector and,
\* unless the region is left, to a recognizer; its cells go to all_ocr_cells.
\* No statement of the loop catches an exception.
OcrRegion ==
    /\ ocr_pc = "rects"
    /\ rect_i < Len(CurPage.rects)
    /\ ~ZeroArea(CurPage.rects[rect_i + 1])
    /\ \E osd \in OsdResults, rec \in RecogOutcomes :
          LET r == rect_i + 1
              seen == {Call("get_page_image", r, 0, FALSE), Call("DetectOrientationScript", r, 0, FALSE)}
              logged == IF osd.none THEN {[level |-> "error", page |-> page_i + 1, rect |-> r]} ELSE {}
              warned == IF is_auto /\ ~osd.none /\ ~UsesScriptReader(osd)
                        THEN {[level |-> "warning", page |-> page_i + 1, rect |-> r]} ELSE {}
              built == IF Constructs(osd)
                       THEN {Call("PyTessBaseAPI", r, local_reader(osd), FALSE)} ELSE {}
          IN IF OsdSkip(osd)
             THEN /\ ocr_calls' = ocr_calls \cup seen
                  /\ ocr_log' = ocr_log \cup logged
                  /\ detected' = detected \cup {[page |-> page_i + 1, rect |-> r, osd |-> osd]}
                  /\ rect_i' = r
                  /\ UNCHANGED <<ocr_pc, all_ocr_cells, script_readers, ocr_error>>
             ELSE /\ ocr_calls' = ocr_calls \cup seen \cup built
                                    \cup {Call("recognize", r, local_reader(osd), doc_orientation(osd) # 0)}
                  /\ detected' = detected \cup {[page |-> page_i + 1, rect |-> r, osd |-> osd]}
                  /\ ocr_log' = ocr_log \cup logged \cup warned
                  /\ script_readers' = ScriptReadersAfter(osd)
                  /\ IF rec.raises
                     THEN /\ ocr_pc' = "raised"
                          /\ ocr_error' = "RuntimeError"
                          /\ UNCHANGED <<rect_i, all_ocr_cells>>
                     ELSE /\ all_ocr_cells' = all_ocr_cells \o Cells(rec.n, r, osd)
                          /\ rect_i' = r
                          /\ UNCHANGED <<ocr_pc, ocr_error>>
    /\ UNCHANGED <<enabled, is_auto, page_batch, page_i, page_cells, out_pages>>
    /\ UNCHANGED <<cacheVars, convVars, settingVars, genVars, task, asmVars>>

\* Lines 243-250: post_process_cells(all_ocr_cells, page), then the page is yielded.
OcrPageDone ==
    /\ ocr_pc = "rects"
    /\ rect_i = Len(CurPage.rects)
    /\ page_cells' = [page_cells EXCEPT ![page_i + 1] = [touched |-> TRUE, cells |-> all_ocr_cells]]
    /\ out_pages' = Append(out_pages, page_i + 1)
    /\ page_i' = page_i + 1
    /\ ocr_pc' = "run"
    /\ UNCHANGED <<enabled, is_auto, page_batch, rect_i, all_ocr_cells, script_readers,
                   ocr_calls, ocr_log, detected, ocr_error>>
    /\ UNCHANGED <<cacheVars, convVars, settingVars, genVars, task, asmVars>>

\* page_batch is exhausted: the generator returns.
OcrReturn ==
    /\ ocr_pc = "run"
    /\ page_i = Len(page_batch)
    /\ ocr_pc' = "done"
    /\ UNCHANGED <<enabled, is_auto, page_batch, page_i, rect_i, all_ocr_cells, page_cells,
                   out_pages, script_readers, ocr_calls, ocr_log, detected, ocr_error>>
    /\ UNCHANGED <<cacheVars, convVars, settingVars, genVars, task, asmVars>>

(***************************************************************************)
(* SpecOcr: one engine, one call of __call__ on a batch of at most         *)
(* MaxPages pages.                                                         *)
(***************************************************************************)
Untouched == [touched |-> FALSE, cells |-> <<>>]

InitOcr ==
    /\ conv = "ready"
    /\ allowed_formats = EngineFormats
    /\ format_options = EmptyDict
    /\ format_to_options = Resolve(allowed_formats, format_options)
    /\ task = [t \in 1..NCallers |-> IdleTask]
    /\ Quiet
    /\ NoConversion
    /\ enabled \in BOOLEAN
    /\ is_auto \in BOOLEAN
    /\ page_batch \in PageBatches
    /\ ocr_pc = "run"
    /\ page_i = 0
    /\ rect_i = 0
    /\ all_ocr_cells = <<>>
    /\ page_cells = [p \in 1..Len(page_batch) |-> Untouched]
    /\ out_pages = <<>>
    /\ script_readers = EmptyDict
    /\ ocr_calls = {}
    /\ ocr_log = {}
    /\ detected = {}
    /\ ocr_error = ""
    /\ NoAssemble

NextOcr ==
    \/ OcrPassThrough
    \/ OcrInvalidPage
    \/ OcrPageStart
    \/ OcrSkipZeroArea
    \/ OcrRegion
    \/ OcrPageDone
    \/ OcrReturn

SpecOcr == InitOcr /\ [][NextOcr]_vars

(***************************************************************************)
(* Claims on the OCR stage.                                                *)
(***************************************************************************)
\* The rectangle a call or a cell is about.
RectOf(p, r) == page_batch[p].rects[r]

\* Every cell made so far: those of the finished pages and of the current one.
CellsSoFar ==
    UNION {{page_cells[p].cells[i] : i \in DOMAIN page_cells[p].cells} : p \in DOMAIN page_cells}
    \cup {all_ocr_cells[i] : i \in DOMAIN all_ocr_cells}

\* C15: a rectangle of zero area is passed over in a step that raises nothing,
\* renders nothing, calls neither the OSD detector nor a recognizer, makes no
\* cell and logs nothing; no call and no cell ever is about such a rectangle;
\* and a page that went through post_process_cells has had every rectangle of
\* non-zero area rendered and given to the OSD detector, zero-area rectangles
\* before it or not.
C15_ZeroAreaSkipped ==
    [][/\ (/\ ocr_pc = "rects"
           /\ rect_i < Len(CurPage.rects)
           /\ CurPage.rects[rect_i + 1].w * CurPage.rects[rect_i + 1].h = 0)
          => /\ ocr_pc' = "rects"
             /\ ocr_error' = ""
             /\ rect_i' = rect_i + 1
             /\ page_i' = page_i
             /\ <<ocr_calls, all_ocr_cells, ocr_log, script_readers, page_cells>>'
                  = <<ocr_calls, all_ocr_cells, ocr_log, script_readers, page_cells>>
       /\ \A c \in ocr_calls' : RectOf(c.page, c.rect).w * RectOf(c.page, c.rect).h # 0
       /\ \A c \in CellsSoFar' :
             RectOf(c.page, c.original_offset).w * RectOf(c.page, c.original_offset).h # 0
       /\ \A p \in DOMAIN page_cells' :
             page_cells'[p].touched =>
                \A r \in DOMAIN page_batch[p].rects :
                    RectOf(p, r).w * RectOf(p, r).h # 0
                    => \E c, d \in ocr_calls' :
                          /\ c.op = "get_page_image" /\ c.page = p /\ c.rect = r
                          /\ d.op = "DetectOrientationScript" /\ d.page = p /\ d.rect = r]_vars

\* A page whose first rectangle has no area and whose second one gave a cell
\* has been yielded.
C15_Witness ==
    \E p \in DOMAIN page_cells :
        /\ page_cells[p].touched
        /\ Len(page_batch[p].rects) = 2
        /\ area(RectOf(p, 1)) = 0
        /\ \E i \in DOMAIN page_cells[p].cells : page_cells[p].cells[i].original_offset = 2
        /\ out_pages[p] = p

\* The regions for which the OSD failure was logged (line 153).
OsdFailed(log) == {<<e.page, e.rect>> : e \in {x \in log : x.level = "error"}}

\* C16: in the step in which OSD gives no result for a region, in automatic
\* mode no recognizer is called for the region, no cell is made and the loop
\* goes on with the next rectangle; in fixed-language mode the recognizer
\* self.reader is called on the image as rendered (not rotated) and every cell
\* made of the region has orientation 0.
C16_OsdFailure ==
    [][\A r \in 1..MaxRects :
          (<<page_i + 1, r>> \in OsdFailed(ocr_log') \ OsdFailed(ocr_log))
          => /\ r = rect_i + 1
             /\ IF is_auto
                THEN /\ ~\E c \in ocr_calls' : c.op = "recognize" /\ c.page = page_i + 1 /\ c.rect = r
                     /\ all_ocr_cells' = all_ocr_cells
                     /\ script_readers' = script_readers
                     /\ ocr_pc' = "rects" /\ rect_i' = r /\ ocr_error' = ""
                ELSE /\ Call("recognize", r, reader, FALSE) \in ocr_calls'
                     /\ \A c \in ocr_calls' :
                           (c.op = "recognize" /\ c.page = page_i + 1 /\ c.rect = r)
                           => (c.reader = reader /\ ~c.rotated)
                     /\ \A i \in DOMAIN all_ocr_cells' :
                           i > Len(all_ocr_cells)
                           => /\ all_ocr_cells'[i].orientation = 0
                              /\ all_ocr_cells'[i].original_offset = r
                              /\ all_ocr_cells'[i].reader = reader
                     /\ ocr_error' = "" => (rect_i' = r /\ Len(all_ocr_cells') <= Len(all_ocr_cells) + MaxBoxes)]_vars

\* In fixed-language mode a region without an OSD result gave a cell, and the
\* page has been yielded.
C16_Witness ==
    /\ ~is_auto
    /\ \E p \in DOMAIN page_cells :
          /\ page_cells[p].touched
          /\ \E i \in DOMAIN page_cells[p].cells :
                /\ <<p, page_cells[p].cells[i].original_offset>> \in OsdFailed(ocr_log)
                /\ page_cells[p].cells[i].orientation = 0

\* C17: no failure of the OSD detector or of a recognizer on a region ends the
\* stage: no exception leaves __call__, every OSD failure is logged, and when
\* the stage is over every page of the batch has been yielded.
C17_FailureNotFatal ==
    /\ ocr_error = ""
    /\ ocr_pc # "raised"
    /\ ocr_pc = "done" => Len(out_pages) = Len(page_batch)

\* C18: the pages the stage yields are the pages of the batch, in order, each
\* once; a disabled stage calls no renderer, detector or recognizer and puts
\* no cells into any page; a page with an invalid backend gets no cells either;
\* every other page is yielded after post_process_cells was called for it; and
\* when the stage is over, normally or not, it has yielded every page.
C18_PagesOneToOne ==
    /\ \A i \in DOMAIN out_pages : out_pages[i] = i
    /\ Len(out_pages) = page_i
    /\ ~enabled => (ocr_calls = {} /\ script_readers = EmptyDict
                    /\ \A p \in DOMAIN page_cells : page_cells[p] = Untouched)
    /\ \A p \in DOMAIN page_cells :
          /\ ~page_batch[p].valid => page_cells[p] = Untouched
          /\ (enabled /\ page_batch[p].valid) => (page_cells[p].touched <=> p \in DOMAIN out_pages)
    /\ ocr_pc \in {"done", "raised"} => Len(out_pages) = Len(page_batch)

\* The script of a region as the detector reported it, mapped to the name of
\* its language, and whether that language is among the installed ones.
ScriptOf(d) == map_tesseract_script(d.osd.script_name)
Installed(d) == <<script_prefix, ScriptOf(d)>> \in _tesserocr_languages

\* The recognizer calls and the constructor calls made for a region.
RecogOf(d) ==
    {c \in ocr_calls : c.op = "recognize" /\ c.page = d.page /\ c.rect = d.rect}
BuiltOf(d) ==
    {c \in ocr_calls : c.op = "PyTessBaseAPI" /\ c.page = d.page /\ c.rect = d.rect}

\* Region d comes before region e in the order __call__ handles them.
Before(d, e) == d.page < e.page \/ (d.page = e.page /\ d.rect < e.rect)

\* C26: in automatic mode, every region whose script was detected and whose
\* language is installed is recognised by the one recognizer stored under its
\* script, which was constructed once, on the first such region; a region
\* whose language is not installed has no recognizer built and is recognised
\* by the default one; there are as many constructor calls as stored
\* recognizers. In fixed-language mode no recognizer is built or stored.
C26_ScriptReaders ==
    /\ ~is_auto => (script_readers = EmptyDict /\ Constructed = {})
    /\ is_auto =>
          /\ Cardinality(Constructed) = Cardinality(DOMAIN script_readers)
          /\ \A d \in detected :
                ~d.osd.none =>
                    /\ RecogOf(d) # {}
                    /\ IF Installed(d)
                       THEN /\ ScriptOf(d) \in DOMAIN script_readers
                            /\ \A c \in RecogOf(d) :
                                  c.reader = script_readers[ScriptOf(d)] /\ c.reader # reader
                            /\ BuiltOf(d) # {} <=>
                                  ~\E e \in detected :
                                      ~e.osd.none /\ ScriptOf(e) = ScriptOf(d) /\ Before(e, d)
                            /\ \A c \in BuiltOf(d) : c.reader = script_readers[ScriptOf(d)]
                       ELSE /\ BuiltOf(d) = {}
                            /\ \A c \in RecogOf(d) : c.reader = reader

\* Two regions of one installed script, on two pages, were recognised by the
\* same recognizer after a single constructor call, in automatic mode.
C26_Witness ==
    /\ is_auto
    /\ Cardinality(Constructed) = 1
    /\ \E d, e \in detected :
          /\ d.page < e.page
          /\ ~d.osd.none /\ ~e.osd.none
          /\ ScriptOf(d) = ScriptOf(e)
          /\ Installed(d)
          /\ \E c \in RecogOf(d), f \in RecogOf(e) : c.reader = f.reader /\ c.reader # reader

(***************************************************************************)
(* Document assembly: StandardPdfPipeline._assemble_document               *)
(* (src/docling/pipeline/standard_pdf_pipeline.py), with the options       *)
(* generate_page_images, generate_picture_images and generate_table_images *)
(* off. Scores are exact fractions num / den; numpy's rounding is not      *)
(* modelled.                                                               *)
(***************************************************************************)
MaxAsmPages == 3    \* pages of a document, for the documents of every shape

Score(n) == [nan |-> FALSE, num |-> n, den |-> 100]

\* A page of conv_res.pages: p.assembled (absent when the page has none) and
\* the page's entry of conv_res.confidence.pages (absent when no stage scored
\* the page).
AsmPage(has_unit, scored, layout, parse, table, ocr) ==
    [assembled |-> has_unit, scored |-> scored,
     scores |-> [layout_score |-> layout, parse_score |-> parse,
                 table_score |-> table, ocr_score |-> ocr]]

UnscoredPage == AsmPage(FALSE, FALSE, NaN, NaN, NaN, NaN)

AsmPageKinds ==
    {AsmPage(TRUE, TRUE, Score(80), Score(90), NaN, Score(70)),
     AsmPage(TRUE, TRUE, Score(55), Score(20), Score(40), NaN),
     AsmPage(TRUE, TRUE, NaN, NaN, NaN, NaN),
     UnscoredPage}

\* The per-page parse scores 0.9, 0.95, 0.2, 0.97, 0.99, in hundredths.
ExampleScores == <<90, 95, 20, 97, 99>>

ExampleDoc ==
    [i \in DOMAIN ExampleScores |->
        AsmPage(TRUE, TRUE, Score(50 + 10 * (i % 2)), Score(ExampleScores[i]), NaN, Score(60))]

\* seq with x put in after its first k items.
InsertAt(q, k, x) == SubSeq(q, 1, k) \o <<x>> \o SubSeq(q, k + 1, Len(q))

\* The documents of the model: every document of at most MaxAsmPages pages, the
\* example, and the example with a page without scores among its pages.
AsmDocs ==
    SeqsUpTo(AsmPageKinds, MaxAsmPages)
    \cup {ExampleDoc}
    \cup {InsertAt(ExampleDoc, k, UnscoredPage) : k \in 0..Len(ExampleDoc)}
    \cup {InsertAt(ExampleDoc, k, AsmPage(TRUE, TRUE, NaN, NaN, NaN, NaN)) : k \in 0..Len(ExampleDoc)}

\* [c.<field> for c in conv_res.confidence.pages.values()]
RECURSIVE PageValues(_, _)
PageValues(ps, field) ==
    IF ps = <<>> THEN <<>>
    ELSE (IF Head(ps).scored THEN <<Head(ps).scores[field]>> ELSE <<>>) \o PageValues(Tail(ps), field)

RECURSIVE Present(_)
Present(vals) ==
    IF vals = <<>> THEN <<>>
    ELSE (IF Head(vals).nan THEN <<>> ELSE <<Head(vals)>>) \o Present(Tail(vals))

RECURSIVE SumNum(_)
SumNum(vals) == IF vals = <<>> THEN 0 ELSE Head(vals).num + SumNum(Tail(vals))

RECURSIVE InsertSorted(_, _)
InsertSorted(x, q) ==
    IF q = <<>> THEN <<x>>
    ELSE IF x.num <= Head(q).num THEN <<x>> \o q
         ELSE <<Head(q)>> \o InsertSorted(x, Tail(q))

RECURSIVE Sorted(_)
Sorted(vals) == IF vals = <<>> THEN <<>> ELSE InsertSorted(Head(vals), Sorted(Tail(vals)))

Returns(v) == [raises |-> FALSE, value |-> v]
Raises == [raises |-> TRUE, value |-> NaN]

\* (Faulty variant, for C19: a mean that divides by the number of present values.)
MeanDividesByCount(vals) ==
    LET xs == Present(vals)
    IN IF xs = <<>> THEN Raises
       ELSE Returns([nan |-> FALSE, num |-> SumNum(xs), den |-> Head(xs).den * Len(xs)])

\* float(np.nanmean(vals)): the mean of the values that are not NaN; NaN, with a
\* RuntimeWarning that line 256 has filtered out, when there is none.
np_nanmean(vals) ==
    LET xs == Present(vals)
    IN IF xs = <<>> THEN Returns(NaN)
       ELSE Returns([nan |-> FALSE, num |-> SumNum(xs), den |-> Head(xs).den * Len(xs)])

\* (Faulty variant, for C20: the parse score taken as the mean.)
QuantileAsMean(vals, qn, qd) == np_nanmean(vals)

\* float(np.nanquantile(vals, q = qn / qd)), method "linear": of the n values
\* that are not NaN, sorted, the value at position (n - 1) * q, interpolated
\* between its neighbours; NaN, with a filtered RuntimeWarning, when n = 0.
np_nanquantile(vals, qn, qd) ==
    LET xs == Sorted(Present(vals))
        n == Len(xs)
        pos == (n - 1) * qn
        lo == xs[(pos \div qd) + 1]
        hi == IF pos % qd = 0 THEN lo ELSE xs[(pos \div qd) + 2]
    IN IF n = 0 THEN Returns(NaN)
       ELSE Returns([nan |-> FALSE,
                     num |-> qd * lo.num + (pos % qd) * (hi.num - lo.num),
                     den |-> qd * lo.den])

\* Lines 188-196: one page of the loop over conv_res.pages. The items of a page
\* are named by the page and their place in it.
UnitOf(p) ==
    [body |-> <<<<p, "text">>, <<p, "table">>>>,
     headers |-> <<<<p, "page_header">>>>,
     elements |-> <<<<p, "page_header">>, <<p, "text">>, <<p, "table">>>>]

\* (Faulty variant, for C27: a page's items are put before those collected so far.)
AsmAddPagePrepends ==
    /\ asm_pc = "pages"
    /\ asm_i < Len(pages)
    /\ asm_i' = asm_i + 1
    /\ assembled' =
          IF pages[asm_i + 1].assembled
          THEN [body |-> UnitOf(asm_i + 1).body \o assembled.body,
                headers |-> UnitOf(asm_i + 1).headers \o assembled.headers,
                elements |-> UnitOf(asm_i + 1).elements \o assembled.elements]
          ELSE assembled
    /\ UNCHANGED <<pages, asm_pc, confidence, aggregated, asm_error>>
    /\ UNCHANGED <<cacheVars, convVars, settingVars, genVars, task, ocrVars>>

\* Lines 189-196: the next page of conv_res.pages; a page without an assembled
\* unit adds nothing.
AsmAddPage ==
    /\ asm_pc = "pages"
    /\ asm_i < Len(pages)
    /\ asm_i' = asm_i + 1
    /\ assembled' =
          IF pages[asm_i + 1].assembled
          THEN [body |-> assembled.body \o UnitOf(asm_i + 1).body,
                headers |-> assembled.headers \o UnitOf(asm_i + 1).headers,
                elements |-> assembled.elements \o UnitOf(asm_i + 1).elements]
          ELSE assembled
    /\ UNCHANGED <<pages, asm_pc, confidence, aggregated, asm_error>>
    /\ UNCHANGED <<cacheVars, convVars, settingVars, genVars, task, ocrVars>>

\* Lines 198-202: conv_res.assembled = AssembledUnit(...), then the reading
\* order model builds conv_res.document.
AsmReadingOrder ==
    /\ asm_pc = "pages"
    /\ asm_i = Len(pages)
    /\ asm_pc' = "images"
    /\ UNCHANGED <<pages, asm_i, assembled, confidence, aggregated, asm_error>>
    /\ UNCHANGED <<cacheVars, convVars, settingVars, genVars, task, ocrVars>>

\* Lines 204-251: with the image options off nothing is done.
AsmImages ==
    /\ asm_pc = "images"
    /\ asm_pc' = "confidence"
    /\ UNCHANGED <<pages, asm_i, assembled, confidence, aggregated, asm_error>>
    /\ UNCHANGED <<cacheVars, convVars, settingVars, genVars, task, ocrVars>>

\* Lines 253-283: the document-level scores, then return conv_res.
AsmConfidence ==
    /\ asm_pc = "confidence"
    /\ IF Len(pages) > 0
       THEN LET layout == np_nanmean(PageValues(pages, "layout_score"))
                parse == np_nanquantile(PageValues(pages, "parse_score"), 1, 10)
                table == np_nanmean(PageValues(pages, "table_score"))
                ocr == np_nanmean(PageValues(pages, "ocr_score"))
            IN /\ aggregated' = TRUE
               /\ IF layout.raises \/ parse.raises \/ table.raises \/ ocr.raises
                  THEN /\ asm_pc' = "raised"
                       /\ asm_error' = "ZeroDivisionError"
                       /\ confidence' =
                             IF layout.raises THEN confidence
                             ELSE [confidence EXCEPT !.layout_score = layout.value]
                  ELSE /\ asm_pc' = "done"
                       /\ asm_error' = asm_error
                       /\ confidence' = [layout_score |-> layout.value, parse_score |-> parse.value,
                                         table_score |-> table.value, ocr_score |-> ocr.value]
       ELSE /\ asm_pc' = "done"
            /\ UNCHANGED <<confidence, aggregated, asm_error>>
    /\ UNCHANGED <<pages, asm_i, assembled>>
    /\ UNCHANGED <<cacheVars, convVars, settingVars, genVars, task, ocrVars>>

(***************************************************************************)
(* SpecAssemble: one call of _assemble_document.                           *)
(***************************************************************************)
InitAssemble ==
    /\ conv = "ready"
    /\ allowed_formats = EngineFormats
    /\ format_options = EmptyDict
    /\ format_to_options = Resolve(allowed_formats, format_options)
    /\ task = [t \in 1..NCallers |-> IdleTask]
    /\ Quiet
    /\ NoConversion
    /\ NoOcr
    /\ pages \in AsmDocs
    /\ asm_pc = "pages"
    /\ asm_i = 0
    /\ assembled = EmptyUnit
    /\ confidence = DefaultScores
    /\ aggregated = FALSE
    /\ asm_error = ""

NextAssemble ==
    \/ AsmAddPage
    \/ AsmReadingOrder
    \/ AsmImages
    \/ AsmConfidence

SpecAssemble == InitAssemble /\ [][NextAssemble]_vars

(***************************************************************************)
(* Claims on the document-level confidence scores.                         *)
(***************************************************************************)
ScoreFields == {"layout_score", "parse_score", "table_score", "ocr_score"}

\* The pages with a value of the score that is present (an entry, not NaN).
PresentIdx(field) ==
    {i \in DOMAIN pages : pages[i].scored /\ ~pages[i].scores[field].nan}

\* C19: _assemble_document never ends with an exception of the aggregation;
\* nothing is written to the document-level scores before the loop over the
\* pages and the reading-order step are over; for a document without pages the
\* aggregation block is not entered and the scores keep their defaults; and for
\* a document with pages it completes, a score none of whose per-page values
\* is present coming out as NaN.
C19_AggregationNeverRaises ==
    /\ asm_error = ""
    /\ asm_pc # "raised"
    /\ asm_pc \in {"pages", "images", "confidence"} => (~aggregated /\ confidence = DefaultScores)
    /\ aggregated => (asm_i = Len(pages) /\ Len(pages) > 0)
    /\ asm_pc = "done" =>
          IF Len(pages) = 0
          THEN ~aggregated /\ confidence = DefaultScores
          ELSE /\ aggregated
               /\ \A f \in ScoreFields : confidence[f].nan <=> PresentIdx(f) = {}

\* A document of several pages, some without an entry of scores and the others
\* with NaN scores only, has been assembled.
C19_Witness ==
    /\ asm_pc = "done"
    /\ aggregated
    /\ Len(pages) >= 2
    /\ \E i, j \in DOMAIN pages : ~pages[i].scored /\ pages[j].scored
    /\ \A f \in ScoreFields : PresentIdx(f) = {} /\ confidence[f].nan

RECURSIVE SumOver(_, _)
SumOver(I, field) ==
    IF I = {} THEN 0
    ELSE LET i == CHOOSE x \in I : TRUE
         IN pages[i].scores[field].num + SumOver(I \ {i}, field)

\* score is the mean of the present per-page values of the field (hundredths).
IsMeanOf(score, field) ==
    LET I == PresentIdx(field)
    IN IF I = {} THEN score.nan
       ELSE /\ ~score.nan
            /\ score.num * 100 * Cardinality(I) = SumOver(I, field) * score.den

\* score is the 10th percentile of the present per-page values of the field:
\* for n <= 10 values, the least one plus (n - 1) / 10 of the way to the next.
IsTenthPercentileOf(score, field) ==
    LET I == PresentIdx(field)
        n == Cardinality(I)
        i1 == CHOOSE i \in I : \A j \in I : pages[i].scores[field].num <= pages[j].scores[field].num
        i2 == IF n = 1 THEN i1
              ELSE CHOOSE i \in I \ {i1} :
                      \A j \in I \ {i1} : pages[i].scores[field].num <= pages[j].scores[field].num
        v1 == pages[i1].scores[field].num
        v2 == pages[i2].scores[field].num
    IN IF I = {} THEN score.nan
       ELSE /\ ~score.nan
            /\ n <= 10 => score.num * 1000 = (10 * v1 + (n - 1) * (v2 - v1)) * score.den

\* The present per-page parse scores, in page order.
ParseScores == [i \in DOMAIN Present(PageValues(pages, "parse_score")) |->
                   Present(PageValues(pages, "parse_score"))[i].num]

\* C20: when _assemble_document is done with a document that has pages, the
\* parse score is the 10th percentile of the present per-page parse scores and
\* the layout, table and OCR scores are the means of theirs; for the per-page
\* parse scores 0.9, 0.95, 0.2, 0.97, 0.99 the parse score is 0.48, the 10th
\* percentile, and not 0.802, the mean.
C20_ParseScorePercentile ==
    (asm_pc = "done" /\ Len(pages) > 0) =>
        /\ IsTenthPercentileOf(confidence.parse_score, "parse_score")
        /\ IsMeanOf(confidence.layout_score, "layout_score")
        /\ IsMeanOf(confidence.table_score, "table_score")
        /\ IsMeanOf(confidence.ocr_score, "ocr_score")
        /\ ParseScores = ExampleScores =>
              /\ confidence.parse_score.num * 100 = 48 * confidence.parse_score.den
              /\ confidence.parse_score.num * 1000 # 802 * confidence.parse_score.den

\* The example document, with a page without scores among its pages, has been
\* assembled: its parse score is 0.48 and its layout score the mean 0.56.
C20_Witness ==
    /\ asm_pc = "done"
    /\ Len(pages) = Len(ExampleScores) + 1
    /\ ParseScores = ExampleScores
    /\ \E i \in DOMAIN pages : ~pages[i].scored
    /\ confidence.parse_score.num * 100 = 48 * confidence.parse_score.den
    /\ confidence.layout_score.num * 100 = 56 * confidence.layout_score.den

\* The items of page p in a document-level collection, in the collection's order.
ItemsOfPage(q, p) == LET OfPage(x) == x[1] = p IN SelectSeq(q, OfPage)

Collections == {"body", "headers", "elements"}

\* C27: at every point of _assemble_document each document-level collection
\* holds, for every page already visited that has an assembled unit, that
\* page's items in the page's own order, holds nothing of any other page, and
\* is ordered by page; no error is raised for a page without a unit; and once
\* the reading-order step has been invoked every page has been visited and the
\* collections do not change any more.
C27_Concatenation ==
    [][/\ \A f \in Collections :
             /\ \A p \in DOMAIN pages :
                   ItemsOfPage(assembled'[f], p)
                     = IF pages[p].assembled /\ p <= asm_i' THEN UnitOf(p)[f] ELSE <<>>
             /\ \A i, j \in DOMAIN assembled'[f] :
                   i < j => assembled'[f][i][1] <= assembled'[f][j][1]
             /\ \A i \in DOMAIN assembled'[f] : assembled'[f][i][1] \in DOMAIN pages
       /\ asm_pc' \in {"pages", "images"} => asm_error' = ""
       /\ asm_pc' # "pages" => asm_i' = Len(pages)
       /\ asm_pc # "pages" => assembled' = assembled]_vars

\* The reading-order step has been invoked on a document of three pages whose
\* second page has no assembled unit.
C27_Witness ==
    /\ asm_pc = "images"
    /\ Len(pages) = 3
    /\ pages[1].assembled /\ ~pages[2].assembled /\ pages[3].assembled
    /\ Len(assembled.elements) = 6
    /\ asm_error = ""

====
